---- MODULE Spec2Model ----
(***************************************************************************)
(* A model of uefi_bridge.c, the bridge between the UEFI file protocol and *)
(* libntfs-3g: the list of open file instances (LookupListHead), the       *)
(* inode open/close discipline around it and the file operations built on  *)
(* both.                                                                   *)
(*                                                                         *)
(* A path is the sequence of its components: "/a/b" is <<"a", "b">>, the   *)
(* root path "/" is <<"">> (a separator followed by an empty base name)    *)
(* and the empty string is <<>>.  Cutting a path at its last separator     *)
(* (BaseName[-1] = 0) is Front, and StrCmp is equality of sequences.       *)
(*                                                                         *)
(* An inode pointer (ntfs_inode* ) is a record: the inode number it was    *)
(* opened for, whether ntfs_inode_close() has not been called on it yet    *)
(* (a pointer that was closed and not overwritten dangles: live = FALSE)   *)
(* and the dirty flags of the in-memory inode.                             *)
(***************************************************************************)
EXTENDS Integers, Sequences, FiniteSets, TLC

(* Bounds of the model *)
MaxFiles == 3
MaxOps == 4
MaxFails == 1
MaxSize == 3
MaxOffset == 4
MaxLen == 3
MaxPreads == 2
MaxMounts == 3
MaxSerial == 2
MaxInfos == 1

(* ------------------------------------------------------------------ *)
(* The volume the model runs on                                         *)
(* ------------------------------------------------------------------ *)
FILE_root == "root"
FILE_Extend == "extend"
NoInode == "nil"

Inodes == {"root", "extend", "A", "S", "B", "Q", "N"}

P_EMPTY == << >>
P_ROOT == << "" >>

(* The paths a caller passes to Open, to Create and to Move *)
OpenPaths ==
  { P_EMPTY, P_ROOT, <<"a">>, <<"a", "b">>, <<"a", "sub">>,
    <<"a", "sub", "b">>, <<"z", "sub">>, <<"$Extend", "q">> }
CreatePaths == { <<"a", "b">>, <<"a", "c">>, <<"$Extend", "q">> }
MovePaths == { <<"a", "b">>, <<"a", "c">>, <<"a", "sub", "b">>, <<"z">> }

InitDirents ==
  { [dir |-> "root", name |-> "a", ino |-> "A"],
    [dir |-> "root", name |-> "$Extend", ino |-> "extend"],
    [dir |-> "A", name |-> "b", ino |-> "B"],
    [dir |-> "A", name |-> "sub", ino |-> "S"],
    [dir |-> "extend", name |-> "q", ino |-> "Q"] }

InitType ==
  [i \in Inodes |->
     CASE i \in {"root", "extend", "A", "S"} -> "dir"
       [] i \in {"B", "Q"} -> "file"
       [] OTHER -> "free"]

NULL == [ino |-> NoInode, live |-> FALSE, dirty |-> {}]
OpenInode(i) == [ino |-> i, live |-> TRUE, dirty |-> {}]

NoFile == 0
FileIds == 1..MaxFiles
FreeFile ==
  [st |-> "free", Path |-> << >>, ni |-> NULL, IsRoot |-> FALSE, IsDir |-> FALSE]

Front(s) == SubSeq(s, 1, Len(s) - 1)
Last(s) == s[Len(s)]
MinOf(S) == CHOOSE x \in S : \A y \in S : x <= y
MaxOf(S) == CHOOSE x \in S : \A y \in S : x >= y

VARIABLES
  files,    \* the EFI_NTFS_FILE instances the callers hold, by slot
  list,     \* FileSystem->LookupListHead, in list order
  dirents,  \* the directory entries on the volume
  itype,    \* each inode number: "dir", "file" or "free"
  nopen,    \* how many open ntfs_inode each inode number has in the library
  ret,      \* what the last call returned and the library calls it made
  fault,    \* "none", or the undefined behaviour a call ran into
  nops,     \* number of calls made
  nfail,    \* number of library calls and allocations that were made to fail
  io,       \* one file's data size and Offset, and what the last read returned
  fs        \* the EFI_FS of the volume, and the volumes the library has mounted

vars == << files, list, dirents, itype, nopen, ret, fault, nops, nfail, io, fs >>

(* ------------------------------------------------------------------ *)
(* ErrnoToEfiStatus                                                     *)
(* ------------------------------------------------------------------ *)
(* The values of errno: those ErrnoToEfiStatus has a case for, and two it has
   none for *)
Errnos ==
  {"0", "ECANCELED", "EACCES", "EEXIST", "ETXTBSY", "EADDRINUSE", "EALREADY",
   "EINPROGRESS", "EISCONN", "EMSGSIZE", "E2BIG", "EOVERFLOW", "ERANGE",
   "ENODEV", "ENOEXEC", "ESPIPE", "EFBIG", "EBADF", "EDOM", "EFAULT", "EIDRM",
   "EILSEQ", "EINVAL", "ENAMETOOLONG", "EPROTOTYPE", "EMFILE", "EMLINK",
   "ENFILE", "ENOBUFS", "ENOLCK", "ENOLINK", "ENOMEM", "ENOSR", "EBADMSG",
   "EISDIR", "EIO", "ENOMSG", "ENOSTR", "EPROTO", "EBUSY", "ENODATA", "ECHILD",
   "ENOENT", "ENXIO", "EAGAIN", "EINTR", "ESRCH", "ETIME", "ETIMEDOUT",
   "EAFNOSUPPORT", "ENOPROTOOPT", "ENOSYS", "ENOTSUP", "ENOMEDIUM", "ELOOP",
   "ENOTDIR", "ENOTEMPTY", "EXDEV", "ENOSPC", "EROFS", "EPERM",
   "ENOTTY", "EPIPE"}

(* ErrnoToEfiStatus with a default that reports no error *)
ErrnoToEfiStatus_DefaultSuccess(errno) ==
  CASE errno = "0" -> "EFI_SUCCESS"
    [] errno = "ECANCELED" -> "EFI_ABORTED"
    [] errno \in {"EACCES", "EEXIST", "ETXTBSY"} -> "EFI_ACCESS_DENIED"
    [] errno \in {"EADDRINUSE", "EALREADY", "EINPROGRESS", "EISCONN"} ->
         "EFI_ALREADY_STARTED"
    [] errno = "EMSGSIZE" -> "EFI_BAD_BUFFER_SIZE"
    [] errno \in {"E2BIG", "EOVERFLOW", "ERANGE"} -> "EFI_BUFFER_TOO_SMALL"
    [] errno = "ENODEV" -> "EFI_DEVICE_ERROR"
    [] errno = "ENOEXEC" -> "EFI_LOAD_ERROR"
    [] errno = "ESPIPE" -> "EFI_END_OF_FILE"
    [] errno = "EFBIG" -> "EFI_END_OF_MEDIA"
    [] errno \in {"EBADF", "EDOM", "EFAULT", "EIDRM", "EILSEQ", "EINVAL",
                  "ENAMETOOLONG", "EPROTOTYPE"} -> "EFI_INVALID_PARAMETER"
    [] errno \in {"EMFILE", "EMLINK", "ENFILE", "ENOBUFS", "ENOLCK", "ENOLINK",
                  "ENOMEM", "ENOSR"} -> "EFI_OUT_OF_RESOURCES"
    [] errno \in {"EBADMSG", "EISDIR", "EIO", "ENOMSG", "ENOSTR", "EPROTO"} ->
         "EFI_PROTOCOL_ERROR"
    [] errno \in {"EBUSY", "ENODATA"} -> "EFI_NO_RESPONSE"
    [] errno \in {"ECHILD", "ENOENT", "ENXIO"} -> "EFI_NOT_FOUND"
    [] errno \in {"EAGAIN", "EINTR"} -> "EFI_NOT_READY"
    [] errno = "ESRCH" -> "EFI_NOT_STARTED"
    [] errno \in {"ETIME", "ETIMEDOUT"} -> "EFI_TIMEOUT"
    [] errno \in {"EAFNOSUPPORT", "ENOPROTOOPT", "ENOSYS", "ENOTSUP"} ->
         "EFI_UNSUPPORTED"
    [] errno = "ENOMEDIUM" -> "EFI_NO_MEDIA"
    [] errno \in {"ELOOP", "ENOTDIR", "ENOTEMPTY", "EXDEV"} ->
         "EFI_VOLUME_CORRUPTED"
    [] errno = "ENOSPC" -> "EFI_VOLUME_FULL"
    [] errno = "EROFS" -> "EFI_WRITE_PROTECTED"
    [] errno = "EPERM" -> "EFI_SECURITY_VIOLATION"
    [] OTHER -> "EFI_SUCCESS"

ErrnoToEfiStatus(errno) ==
  CASE errno = "0" -> "EFI_SUCCESS"
    [] errno = "ECANCELED" -> "EFI_ABORTED"
    [] errno \in {"EACCES", "EEXIST", "ETXTBSY"} -> "EFI_ACCESS_DENIED"
    [] errno \in {"EADDRINUSE", "EALREADY", "EINPROGRESS", "EISCONN"} ->
         "EFI_ALREADY_STARTED"
    [] errno = "EMSGSIZE" -> "EFI_BAD_BUFFER_SIZE"
    [] errno \in {"E2BIG", "EOVERFLOW", "ERANGE"} -> "EFI_BUFFER_TOO_SMALL"
    [] errno = "ENODEV" -> "EFI_DEVICE_ERROR"
    [] errno = "ENOEXEC" -> "EFI_LOAD_ERROR"
    [] errno = "ESPIPE" -> "EFI_END_OF_FILE"
    [] errno = "EFBIG" -> "EFI_END_OF_MEDIA"
    [] errno \in {"EBADF", "EDOM", "EFAULT", "EIDRM", "EILSEQ", "EINVAL",
                  "ENAMETOOLONG", "EPROTOTYPE"} -> "EFI_INVALID_PARAMETER"
    [] errno \in {"EMFILE", "EMLINK", "ENFILE", "ENOBUFS", "ENOLCK", "ENOLINK",
                  "ENOMEM", "ENOSR"} -> "EFI_OUT_OF_RESOURCES"
    [] errno \in {"EBADMSG", "EISDIR", "EIO", "ENOMSG", "ENOSTR", "EPROTO"} ->
         "EFI_PROTOCOL_ERROR"
    [] errno \in {"EBUSY", "ENODATA"} -> "EFI_NO_RESPONSE"
    [] errno \in {"ECHILD", "ENOENT", "ENXIO"} -> "EFI_NOT_FOUND"
    [] errno \in {"EAGAIN", "EINTR"} -> "EFI_NOT_READY"
    [] errno = "ESRCH" -> "EFI_NOT_STARTED"
    [] errno \in {"ETIME", "ETIMEDOUT"} -> "EFI_TIMEOUT"
    [] errno \in {"EAFNOSUPPORT", "ENOPROTOOPT", "ENOSYS", "ENOTSUP"} ->
         "EFI_UNSUPPORTED"
    [] errno = "ENOMEDIUM" -> "EFI_NO_MEDIA"
    [] errno \in {"ELOOP", "ENOTDIR", "ENOTEMPTY", "EXDEV"} ->
         "EFI_VOLUME_CORRUPTED"
    [] errno = "ENOSPC" -> "EFI_VOLUME_FULL"
    [] errno = "EROFS" -> "EFI_WRITE_PROTECTED"
    [] errno = "EPERM" -> "EFI_SECURITY_VIOLATION"
    [] OTHER -> "EFI_NO_MAPPING"

EFI_ERROR(Status) == Status \notin {"EFI_SUCCESS", "EFI_WARN_DELETE_FAILURE"}

(* ------------------------------------------------------------------ *)
(* The machine a call runs on: the state plus the call's errno, the     *)
(* library calls it has made so far and the fault it has run into.      *)
(* ------------------------------------------------------------------ *)
Machine ==
  [files |-> files, list |-> list, dirents |-> dirents, itype |-> itype,
   nopen |-> nopen, trace |-> << >>, errno |-> "0", fault |-> "none",
   inj |-> FALSE]

(* A local variable: v, computed once, under the name F gives it *)
With(v, F(_)) == F(v)

(* A library call or an allocation that is made to fail *)
Inject(m, ok) == IF ok THEN m ELSE [m EXCEPT !.inj = TRUE]

Ev(m, call, var, ino, from) ==
  [m EXCEPT !.trace =
     Append(@, [call |-> call, var |-> var, ino |-> ino, from |-> from])]

Fault(m, what) == IF m.fault = "none" THEN [m EXCEPT !.fault = what] ELSE m

IS_DIR(m, h) == h.ino \in Inodes /\ m.itype[h.ino] = "dir"

(* IS_DIRTY without the test of the attribute list *)
IS_DIRTY_NoAttrList(h) == "ino" \in h.dirty

IS_DIRTY(h) == "ino" \in h.dirty \/ "attrlist" \in h.dirty

SetDirty(h) == IF h = NULL THEN h ELSE [h EXCEPT !.dirty = @ \cup {"ino"}]

(* ------------------------------------------------------------------ *)
(* libntfs-3g, as the bridge uses it                                    *)
(* ------------------------------------------------------------------ *)
Child(d, dir, name) ==
  With({e \in d : e.dir = dir /\ e.name = name}, LAMBDA hits :
    IF hits = {} THEN NoInode ELSE (CHOOSE e \in hits : TRUE).ino)

RECURSIVE Walk(_, _, _)
Walk(d, ino, rel) ==
  IF rel = << >> \/ ino = NoInode THEN ino
  ELSE Walk(d, Child(d, ino, Head(rel)), Tail(rel))

(* ntfs_inode_open(vol, inum): a new open inode, or NULL with errno set *)
ntfs_inode_open(m, inum, var, ok) ==
  IF ok /\ inum \in Inodes /\ m.itype[inum] # "free"
    THEN [m |-> Ev([m EXCEPT !.nopen[inum] = @ + 1], "open", var, inum, NoInode),
          h |-> OpenInode(inum)]
    ELSE [m |-> Ev([Inject(m, ok) EXCEPT !.errno = IF ok THEN "ENOENT" ELSE "EIO"],
                   "open", var, NoInode, NoInode),
          h |-> NULL]

(* ntfs_inode_close(ni): fine on NULL; closing a closed inode is a double free *)
ntfs_inode_close(m, h, var) ==
  IF h = NULL THEN m
  ELSE IF ~h.live THEN Fault(m, "ub")
  ELSE Ev([m EXCEPT !.nopen[h.ino] = @ - 1], "close", var, h.ino, NoInode)

(* ntfs_inode_close() on the inode a file instance holds: the instance keeps
   the pointer, which now dangles *)
CloseHeld(m, f, var) ==
  IF m.files[f].ni = NULL THEN m
  ELSE [ntfs_inode_close(m, m.files[f].ni, var) EXCEPT !.files[f].ni.live = FALSE]

(* ntfs_pathname_to_inode(vol, parent, path): the inode at the relative path
   below parent (below root when parent is NULL), opened *)
ntfs_pathname_to_inode(m, start, rel, var, ok) ==
  IF start # NULL /\ ~start.live THEN [m |-> Fault(m, "ub"), h |-> NULL]
  ELSE
    With(IF start = NULL THEN FILE_root ELSE start.ino, LAMBDA from :
    With(Walk(m.dirents, from, rel), LAMBDA target :
      IF ok /\ target # NoInode
        THEN [m |-> Ev([m EXCEPT !.nopen[target] = @ + 1],
                       "resolve", var, target, from),
              h |-> OpenInode(target)]
      ELSE [m |-> Ev([Inject(m, ok) EXCEPT !.errno = IF ok THEN "ENOENT" ELSE "EIO"],
                     "resolve", var, NoInode, from),
            h |-> NULL]))

(* ------------------------------------------------------------------ *)
(* The lookup list                                                      *)
(* ------------------------------------------------------------------ *)
InList(l, f) == \E i \in DOMAIN l : l[i] = f

Matches(m, e, Path, self, IgnoreSelf) ==
  /\ ~(IgnoreSelf /\ e = self)
  /\ \/ (Path = << >> /\ m.files[e].IsRoot)
     \/ Path = m.files[e].Path

NtfsLookupPath(m, Path, self, IgnoreSelf) ==
  With({i \in DOMAIN m.list : Matches(m, m.list[i], Path, self, IgnoreSelf)},
       LAMBDA hits : IF hits = {} THEN NoFile ELSE m.list[MinOf(hits)])

NtfsLookupParent(m, f) == NtfsLookupPath(m, Front(m.files[f].Path), f, TRUE)

(* FS_ASSERT(File->BaseName[-1] == PATH_CHAR): a path with no separator has
   no base name to cut at *)
HasBaseName(Path) == Path # << >>

NtfsLookupAdd(m, f, ok) ==
  IF ok THEN [m EXCEPT !.list = Append(@, f)] ELSE Inject(m, ok)

(* NtfsLookupRem with a loop that gives up after the first entry *)
NtfsLookupRem_HeadOnly(m, f) ==
  IF m.list # << >> /\ Head(m.list) = f THEN [m EXCEPT !.list = Tail(@)] ELSE m

NtfsLookupRem(m, f) ==
  [m EXCEPT !.list = SelectSeq(@, LAMBDA e : e # f)]

(* ------------------------------------------------------------------ *)
(* NtfsOpenInodeFromPath                                                *)
(* ------------------------------------------------------------------ *)
(* The search going on after its first match, down to the shortest prefix *)
ClosestOpen_Shallowest(m, Path) ==
  MinOf({0} \cup {j \in 0..(Len(Path) - 1) :
                    NtfsLookupPath(m, SubSeq(Path, 1, j), NoFile, FALSE) # NoFile})

(* The length of the longest proper prefix of Path that the lookup list has
   an instance for, 0 when it has none: where the loop that cuts Path at its
   last separator, then at the one before, stops *)
ClosestOpen(m, Path) ==
  MaxOf({0} \cup {j \in 0..(Len(Path) - 1) :
                    NtfsLookupPath(m, SubSeq(Path, 1, j), NoFile, FALSE) # NoFile})

NtfsOpenInodeFromPath(m, Path, var, ok) ==
  IF Path = << >> \/ Path = << "" >>
    THEN ntfs_inode_open(m, FILE_root, var, ok)
  ELSE
    With(ClosestOpen(m, Path), LAMBDA k :
    With(NtfsLookupPath(m, SubSeq(Path, 1, k), NoFile, FALSE), LAMBDA Parent :
      ntfs_pathname_to_inode(m, IF Parent # NoFile THEN m.files[Parent].ni ELSE NULL,
                             SubSeq(Path, k + 1, Len(Path)), var, ok)))

(* ------------------------------------------------------------------ *)
(* What a call leaves behind                                            *)
(* ------------------------------------------------------------------ *)
RetBase ==
  [op |-> "none", file |-> NoFile, out |-> NoFile, path |-> << >>,
   newpath |-> << >>,
   status |-> "EFI_SUCCESS", trace |-> << >>, flags |-> {},
   rel |-> NoFile, relIno |-> NoInode, rel2 |-> NoFile, rel2Ino |-> NoInode,
   mark |-> 0, errno |-> "0", rec |-> FreeFile]

Held == {f \in FileIds : files[f].st = "open"}
FreeSlots == {f \in FileIds : files[f].st = "free"}

(* A file instance its caller has let go of is freed (NtfsFreeFile) unless
   the lookup list still points to it *)
Release(m, f) ==
  IF InList(m.list, f) THEN [m EXCEPT !.files[f].st = "closed"]
  ELSE [m EXCEPT !.files[f] = FreeFile]

CommitVol(m, r, fail) ==
  /\ nops' = nops + 1
  /\ fs' = fs
  /\ (fail # "none") = m.inj
  /\ m.inj => nfail < MaxFails
  /\ nfail' = IF m.inj THEN nfail + 1 ELSE nfail
  /\ IF m.fault # "none"
       THEN /\ fault' = m.fault
            /\ ret' = [RetBase EXCEPT !.op = r.op, !.file = r.file,
                                      !.path = r.path, !.status = "FAULT"]
            /\ UNCHANGED << files, list, dirents, itype, nopen >>
       ELSE /\ fault' = fault
            /\ files' = m.files
            /\ list' = m.list
            /\ dirents' = m.dirents
            /\ itype' = m.itype
            /\ nopen' = m.nopen
            /\ ret' = [r EXCEPT !.trace = m.trace, !.errno = m.errno]

Commit(m, r, fail) == CommitVol(m, r, fail) /\ io' = io

CanCall == fault = "none" /\ nops < MaxOps

(* At most MaxFails library calls and allocations are made to fail *)
CanFail(fail) == fail = "none" \/ nfail < MaxFails

(* ------------------------------------------------------------------ *)
(* NtfsOpenFile                                                         *)
(* ------------------------------------------------------------------ *)
OpenFails == {"none", "resolve", "alloc"}

(* NtfsOpenFile adding the instance to the list before it tests the inode *)
OpenNew_AddsFirst(m0, new, path, r0, fail) ==
  With(NtfsOpenInodeFromPath([m0 EXCEPT !.files[new].IsRoot = (path = P_ROOT)],
                             path, "ni", fail # "resolve"), LAMBDA o :
    IF o.h = NULL
      THEN Commit(NtfsLookupAdd(o.m, new, TRUE),
                  [r0 EXCEPT !.status = ErrnoToEfiStatus(o.m.errno),
                             !.rec = [o.m.files[new] EXCEPT !.ni = o.h]], fail)
    ELSE Commit(NtfsLookupAdd([o.m EXCEPT !.files[new].ni = o.h,
                                          !.files[new].IsDir = IS_DIR(o.m, o.h)],
                              new, fail # "alloc"),
                [r0 EXCEPT !.out = new], fail))

(* NtfsOpenFile once no open instance was found for the path *)
OpenNew(m0, new, path, r0, fail) ==
  With(NtfsOpenInodeFromPath([m0 EXCEPT !.files[new].IsRoot = (path = P_ROOT)],
                             path, "ni", fail # "resolve"), LAMBDA o :
    IF o.h = NULL
      THEN Commit([o.m EXCEPT !.files[new] = FreeFile],
                  [r0 EXCEPT !.status = ErrnoToEfiStatus(o.m.errno),
                             !.rec = [o.m.files[new] EXCEPT !.ni = o.h]], fail)
    ELSE Commit(NtfsLookupAdd([o.m EXCEPT !.files[new].ni = o.h,
                                          !.files[new].IsDir = IS_DIR(o.m, o.h)],
                              new, fail # "alloc"),
                [r0 EXCEPT !.out = new], fail))

NtfsOpenFile(path, fail) ==
  /\ CanCall
  /\ CanFail(fail)
  /\ FreeSlots # {}
  /\ With(MinOf(FreeSlots), LAMBDA new :
     With([Machine EXCEPT !.files[new] =
             [FreeFile EXCEPT !.st = "open", !.Path = path]], LAMBDA m0 :
     With(NtfsLookupPath(m0, path, new, FALSE), LAMBDA File :
     With([RetBase EXCEPT !.op = "open", !.file = new, !.path = path], LAMBDA r0 :
       IF File # NoFile
         THEN Commit([m0 EXCEPT !.files[new] = FreeFile],
                     [r0 EXCEPT !.out = File, !.flags = {"alias"}], fail)
       ELSE OpenNew(m0, new, path, r0, fail)))))

(* ------------------------------------------------------------------ *)
(* NtfsCloseFile                                                        *)
(* ------------------------------------------------------------------ *)
CloseFails == {"none", "reopen"}

(* Reading through a file's inode pointer: undefined when it is NULL or
   dangles *)
Deref(m, f) ==
  IF m.files[f].ni = NULL \/ ~m.files[f].ni.live THEN Fault(m, "ub") ELSE m

(* The reopening with its NULL test inverted *)
Reopen_Inverted(m, Parent, inum, var, ok) ==
  With(ntfs_inode_open(m, inum, var, ok), LAMBDA o :
    IF o.h # NULL
      THEN NtfsLookupRem([o.m EXCEPT !.files[Parent].ni = o.h], Parent)
      ELSE [o.m EXCEPT !.files[Parent].ni = o.h])

(* Parent->NtfsInode = ntfs_inode_open(vol, inum), dropping Parent from the
   list when that fails *)
Reopen(m, Parent, inum, var, ok) ==
  With(ntfs_inode_open(m, inum, var, ok), LAMBDA o :
    IF o.h = NULL
      THEN NtfsLookupRem([o.m EXCEPT !.files[Parent].ni = o.h], Parent)
      ELSE [o.m EXCEPT !.files[Parent].ni = o.h])

(* Parent's inode closed for the time of a sync: the machine after the close
   and the number to reopen *)
CloseParent(m, Parent, var) ==
  IF Parent = NoFile THEN [m |-> m, inum |-> NoInode]
  ELSE [m |-> CloseHeld(Deref(m, Parent), Parent, var),
        inum |-> m.files[Parent].ni.ino]

(* NtfsCloseFile of an open inode, from the test of IS_DIRTY on *)
CloseOpen(m0, f, r0, dirty, Parent, fail) ==
  With(CloseParent(IF dirty /\ ~HasBaseName(m0.files[f].Path)
                     THEN Fault(m0, "ub") ELSE m0, Parent, "parent"), LAMBDA c :
  With(CloseHeld(c.m, f, "ni"), LAMBDA m3 :
  With(IF Parent # NoFile
         THEN Reopen(m3, Parent, c.inum, "parent", fail # "reopen")
         ELSE m3, LAMBDA m4 :
    Commit(Release(NtfsLookupRem(m4, f), f),
           [r0 EXCEPT !.rel = Parent, !.relIno = c.inum,
                      !.flags = IF dirty THEN {"dirty"} ELSE {}], fail))))

NtfsCloseFile(f, fail) ==
  /\ CanCall
  /\ CanFail(fail)
  /\ f \in Held
  /\ With(Machine, LAMBDA m0 :
     With([RetBase EXCEPT !.op = "close", !.file = f, !.path = files[f].Path],
          LAMBDA r0 :
       IF m0.files[f].ni = NULL
         THEN Commit(Release(m0, f), [r0 EXCEPT !.flags = {"null"}], fail)
       ELSE IF ~m0.files[f].ni.live
         THEN Commit(Fault(m0, "ub"), r0, fail)
       ELSE
         With(IS_DIRTY(m0.files[f].ni), LAMBDA dirty :
           CloseOpen(m0, f, r0, dirty,
                     IF dirty /\ HasBaseName(m0.files[f].Path)
                       THEN NtfsLookupParent(m0, f) ELSE NoFile,
                     fail))))

(* ------------------------------------------------------------------ *)
(* The library marking an open inode as modified                        *)
(* (ntfs_inode_update_times and ntfs_attr_pwrite under NtfsWriteFile)   *)
(* ------------------------------------------------------------------ *)
DirtyFlags == {"ino", "attrlist"}

MarkDirty(f, flag) ==
  /\ CanCall
  /\ f \in Held
  /\ Commit([Deref(Machine, f) EXCEPT !.files[f].ni.dirty = @ \cup {flag}],
            [RetBase EXCEPT !.op = "write", !.file = f, !.path = files[f].Path],
            "none")

(* ------------------------------------------------------------------ *)
(* NtfsFlushFile                                                        *)
(* ------------------------------------------------------------------ *)
FlushFails == {"none", "sync", "reopen"}

(* The test NtfsFlushFile makes before it does anything *)
FlushNothingToDo(h) == ~("ino" \in h.dirty) /\ "attrlist" \in h.dirty

(* ntfs_inode_sync(ni): writes the inode back and clears its dirty flags *)
ntfs_inode_sync(m, f, ok) ==
  IF ok THEN Ev([m EXCEPT !.files[f].ni.dirty = {}], "sync", "ni", m.files[f].ni.ino, NoInode)
  ELSE Ev([Inject(m, ok) EXCEPT !.errno = "EIO"], "sync", "ni", NoInode, NoInode)

(* NtfsFlushFile from NtfsLookupParent on *)
FlushDirty(m0, f, r0, Parent, fail) ==
  With(CloseParent(IF HasBaseName(m0.files[f].Path) THEN m0 ELSE Fault(m0, "ub"),
                   Parent, "parent"), LAMBDA c :
  With(ntfs_inode_sync(c.m, f, fail # "sync"), LAMBDA m3 :
  With(IF Parent # NoFile
         THEN Reopen(m3, Parent, c.inum, "parent", fail # "reopen")
         ELSE m3, LAMBDA m4 :
    Commit(m4, [r0 EXCEPT !.status = IF fail = "sync" THEN ErrnoToEfiStatus(m3.errno)
                                     ELSE "EFI_SUCCESS",
                          !.rel = Parent, !.relIno = c.inum,
                          !.flags = IF IS_DIRTY(m0.files[f].ni) THEN {"dirty"} ELSE {}],
           fail))))

NtfsFlushFile(f, fail) ==
  /\ CanCall
  /\ CanFail(fail)
  /\ f \in Held
  /\ With(Deref(Machine, f), LAMBDA m0 :
     With([RetBase EXCEPT !.op = "flush", !.file = f, !.path = files[f].Path],
          LAMBDA r0 :
       IF m0.fault # "none" THEN Commit(m0, r0, fail)
       ELSE IF FlushNothingToDo(m0.files[f].ni)
         THEN Commit(m0, [r0 EXCEPT !.flags = {"nothing"}], fail)
       ELSE FlushDirty(m0, f, r0,
                       IF HasBaseName(m0.files[f].Path)
                         THEN NtfsLookupParent(m0, f) ELSE NoFile,
                       fail)))

(* ------------------------------------------------------------------ *)
(* NtfsCreateFile                                                       *)
(* ------------------------------------------------------------------ *)
CreateFails == {"none", "resolve", "create", "alloc"}

(* ntfs_forbidden_names(): an empty name is no file name *)
ntfs_forbidden_names(name) == name = ""

FreeInodes(m) == {i \in Inodes : m.itype[i] = "free"}

(* ntfs_create(dir_ni, name, type): a new inode entered in the directory,
   returned open and dirty; the directory inode is dirty too *)
ntfs_create(m, dir, name, IsDir, ok) ==
  IF ok /\ FreeInodes(m) # {} /\ IS_DIR(m, dir)
    THEN With(CHOOSE x \in FreeInodes(m) : TRUE, LAMBDA i :
           [m |-> Ev([m EXCEPT !.itype[i] = IF IsDir THEN "dir" ELSE "file",
                               !.nopen[i] = @ + 1,
                               !.dirents = @ \cup {[dir |-> dir.ino, name |-> name,
                                                    ino |-> i]}],
                     "create", "ni", i, dir.ino),
            h |-> SetDirty(OpenInode(i))])
    ELSE [m |-> Ev([Inject(m, ok) EXCEPT !.errno = IF ~ok THEN "EIO"
                                        ELSE IF IS_DIR(m, dir) THEN "ENOSPC"
                                        ELSE "ENOTDIR"],
                   "create", "ni", NoInode, dir.ino),
          h |-> NULL]

(* NtfsCreateFile once the inode was not found: ntfs_create and the update
   of the parent *)
CreateNew(m, new, Parent, dir_ni, fail) ==
  With(ntfs_create(m, dir_ni, Last(m.files[new].Path), m.files[new].IsDir,
                   fail # "create"), LAMBDA c :
  With(IF Parent # NoFile /\ c.h # NULL
         THEN [c.m EXCEPT !.files[Parent].ni = SetDirty(@)]
         ELSE c.m, LAMBDA m1 :
    IF c.h = NULL
      THEN [m |-> m1, ni |-> NULL, Status |-> ErrnoToEfiStatus(m1.errno)]
      ELSE [m |-> [m1 EXCEPT !.files[new].ni = c.h],
            ni |-> c.h, Status |-> "EFI_SUCCESS"]))

(* The part of NtfsCreateFile from the directory inode on, up to the
   label out *)
CreateIn(m, new, Parent, dir_ni, fail) ==
  IF dir_ni = NULL
    THEN [m |-> m, ni |-> NULL, Status |-> ErrnoToEfiStatus(m.errno)]
  ELSE IF ~dir_ni.live
    THEN [m |-> Fault(m, "ub"), ni |-> NULL, Status |-> "FAULT"]
  ELSE IF dir_ni.ino = FILE_Extend
    THEN [m |-> m, ni |-> NULL, Status |-> "EFI_ACCESS_DENIED"]
  ELSE
    With(ntfs_pathname_to_inode(m, dir_ni, << Last(m.files[new].Path) >>, "ni",
                                TRUE), LAMBDA o :
      IF o.h # NULL
        THEN IF m.files[new].IsDir # IS_DIR(o.m, o.h)
               THEN [m |-> o.m, ni |-> o.h, Status |-> "EFI_ACCESS_DENIED"]
               ELSE [m |-> [o.m EXCEPT !.files[new].ni = SetDirty(o.h)],
                     ni |-> o.h, Status |-> "EFI_SUCCESS"]
      ELSE CreateNew(o.m, new, Parent, dir_ni, fail))

(* The label out without the ntfs_inode_close(ni) of a failed call *)
CreateOut_KeepsInode(c, m1, new, r1, fail) ==
  IF EFI_ERROR(c.Status)
    THEN Commit([m1 EXCEPT !.files[new] = FreeFile], r1, fail)
  ELSE IF c.ni = NULL
    THEN Commit(m1, [r1 EXCEPT !.out = new], fail)
  ELSE Commit(NtfsLookupAdd(m1, new, fail # "alloc"), [r1 EXCEPT !.out = new], fail)

(* The label out of NtfsCreateFile: c is what CreateIn left, m1 the machine
   once a dir_ni the function opened is closed *)
CreateOut(c, m1, new, r1, fail) ==
  IF EFI_ERROR(c.Status)
    THEN Commit([ntfs_inode_close(m1, c.ni, "ni") EXCEPT !.files[new] = FreeFile],
                r1, fail)
  ELSE IF c.ni = NULL
    THEN Commit(m1, [r1 EXCEPT !.out = new], fail)
  ELSE Commit(NtfsLookupAdd(m1, new, fail # "alloc"), [r1 EXCEPT !.out = new], fail)

(* The test of an open instance with its two answers taken for each other *)
CreateAlias_Swapped(m0, new, File, IsDir, r0, fail) ==
  IF m0.files[File].IsDir = IsDir
    THEN Commit([m0 EXCEPT !.files[new] = FreeFile],
                [r0 EXCEPT !.status = "EFI_ACCESS_DENIED",
                           !.flags = @ \cup {"alias"}, !.rec = m0.files[new]], fail)
    ELSE Commit([m0 EXCEPT !.files[new] = FreeFile],
                [r0 EXCEPT !.out = File, !.flags = @ \cup {"alias"}], fail)

(* NtfsCreateFile when an open instance was found for the path: refused when
   it is a directory and a file is asked for or the other way round (the
   caller's instance is left as it is), taken in place of the caller's
   instance otherwise *)
CreateAlias(m0, new, File, IsDir, r0, fail) ==
  IF m0.files[File].IsDir # IsDir
    THEN Commit([m0 EXCEPT !.files[new] = FreeFile],
                [r0 EXCEPT !.status = "EFI_ACCESS_DENIED",
                           !.flags = @ \cup {"alias"}, !.rec = m0.files[new]], fail)
    ELSE Commit([m0 EXCEPT !.files[new] = FreeFile],
                [r0 EXCEPT !.out = File, !.flags = @ \cup {"alias"}], fail)

NtfsCreateFile(path, IsDir, fail) ==
  /\ CanCall
  /\ CanFail(fail)
  /\ FreeSlots # {}
  /\ HasBaseName(path)
  /\ With(MinOf(FreeSlots), LAMBDA new :
     With([Machine EXCEPT !.files[new] =
             [FreeFile EXCEPT !.st = "open", !.Path = path, !.IsDir = IsDir]],
          LAMBDA m0 :
     With(NtfsLookupPath(m0, path, new, FALSE), LAMBDA File :
     With([RetBase EXCEPT !.op = "create", !.file = new, !.path = path,
                          !.flags = IF IsDir THEN {"IsDir"} ELSE {}], LAMBDA r0 :
     With([m0 EXCEPT !.files[new] = FreeFile], LAMBDA discard :
       IF File # NoFile
         THEN CreateAlias(m0, new, File, IsDir, r0, fail)
       ELSE IF ntfs_forbidden_names(Last(path))
         THEN Commit(discard, [r0 EXCEPT !.status = "EFI_INVALID_PARAMETER"], fail)
       ELSE
         With(NtfsLookupParent(m0, new), LAMBDA Parent :
         With(IF Parent = NoFile
                THEN NtfsOpenInodeFromPath(m0, Front(path), "dir_ni",
                                           fail # "resolve")
                ELSE [m |-> m0, h |-> m0.files[Parent].ni], LAMBDA d :
         With(CreateIn(d.m, new, Parent, d.h, fail), LAMBDA c :
           CreateOut(c,
                     IF Parent = NoFile
                       THEN ntfs_inode_close(c.m, d.h, "dir_ni") ELSE c.m,
                     new,
                     [r0 EXCEPT !.status = c.Status, !.rel = Parent],
                     fail)))))))))

(* ------------------------------------------------------------------ *)
(* NtfsDeleteFile                                                       *)
(* ------------------------------------------------------------------ *)
DeleteFails == {"none", "resolve", "delete", "openP", "openG"}

(* What ntfs_delete answers once ni and dir_ni are closed (m1): entry is the
   directory entry to remove, links the entries of the inode *)
DeleteEntry(m, m1, ni, dir_ni, entry, links, var, ok) ==
  With(ni # NULL /\ dir_ni # NULL, LAMBDA args :
    IF /\ ok
       /\ args
       /\ entry \in m.dirents
       /\ ~((\E e \in m.dirents : e.dir = ni.ino) /\ links = {entry})
      THEN [m |-> Ev([m1 EXCEPT !.dirents = @ \ {entry},
                                !.itype[ni.ino] =
                                   IF links = {entry} THEN "free" ELSE @],
                     "delete", var, ni.ino, dir_ni.ino),
            r |-> 0]
      ELSE [m |-> Ev([Inject(m1, ok) EXCEPT !.errno =
                        IF ~ok THEN "EIO"
                        ELSE IF ~args THEN "EINVAL"
                        ELSE IF entry \notin m.dirents THEN "ENOENT"
                        ELSE "ENOTEMPTY"],
                     "delete", var, NoInode, dir_ni.ino),
            r |-> -1])

(* ntfs_delete(vol, NULL, ni, dir_ni, name): removes the entry name of dir_ni
   and, with its last entry, the inode; closes ni and dir_ni whether it
   succeeds or not *)
ntfs_delete(m, ni, dir_ni, name, var, ok) ==
  IF (ni # NULL /\ ~ni.live) \/ (dir_ni # NULL /\ ~dir_ni.live)
    THEN [m |-> Fault(m, "ub"), r |-> -1]
  ELSE DeleteEntry(m, ntfs_inode_close(ntfs_inode_close(m, ni, "ni"), dir_ni, var),
                   ni, dir_ni,
                   [dir |-> dir_ni.ino, name |-> name, ino |-> ni.ino],
                   {e \in m.dirents : e.ino = ni.ino}, var, ok)

(* The pointer a file instance holds after the library closed its inode *)
Dangle(m, f) ==
  IF f = NoFile \/ m.files[f].ni = NULL THEN m
  ELSE [m EXCEPT !.files[f].ni.live = FALSE]

(* NtfsDeleteFile after a successful ntfs_delete: the handles closed for the
   deletion are reopened *)
DeleteReopen(m2, Parent, GrandParent, parent_inum, grandparent_inum, r1, fail) ==
  With(IF Parent # NoFile
         THEN Reopen(m2, Parent, parent_inum, "parent", fail # "openP")
         ELSE m2, LAMBDA m3 :
    IF Parent # NoFile /\ m3.files[Parent].ni = NULL
      THEN Commit(m3, [r1 EXCEPT !.status = ErrnoToEfiStatus(m3.errno),
                                 !.flags = @ \cup {"deleted"}], fail)
    ELSE
      With(IF GrandParent # NoFile
             THEN Reopen(m3, GrandParent, grandparent_inum, "grandparent",
                         fail # "openG")
             ELSE m3, LAMBDA m4 :
        IF GrandParent # NoFile /\ m4.files[GrandParent].ni = NULL
          THEN Commit(m4, [r1 EXCEPT !.status = ErrnoToEfiStatus(m4.errno),
                                     !.flags = @ \cup {"deleted"}], fail)
          ELSE Commit(m4, [r1 EXCEPT !.flags = @ \cup {"deleted"}], fail)))

(* NtfsDeleteFile from the call of ntfs_delete on *)
DeleteCall(m, f, Parent, GrandParent, dir_ni, grandparent_inum, r1, fail) ==
  With(ntfs_delete(m, m.files[f].ni, dir_ni, Last(m.files[f].Path),
                   "dir_ni", fail # "delete"), LAMBDA d :
  With(NtfsLookupRem(Dangle(Dangle(d.m, f), Parent), f), LAMBDA m1 :
    IF d.r < 0
      THEN Commit(Release(m1, f),
                  [r1 EXCEPT !.status = "EFI_WARN_DELETE_FAILURE",
                             !.flags = @ \cup {"deleteFailed"}], fail)
    ELSE DeleteReopen(Release([m1 EXCEPT !.files[f].ni = NULL], f),
                      Parent, GrandParent, dir_ni.ino, grandparent_inum,
                      r1, fail)))

(* NtfsDeleteFile from the test of the directory inode on *)
DeleteIn(m, f, Parent, GrandParent, dir_ni, r0, fail) ==
  IF m.fault # "none" THEN Commit(m, r0, fail)
  ELSE IF dir_ni.ino = FILE_Extend
    THEN Commit(m, [r0 EXCEPT !.status = "EFI_ACCESS_DENIED"], fail)
  ELSE
    With(IF GrandParent # NoFile THEN m.files[GrandParent].ni.ino ELSE NoInode,
         LAMBDA grandparent_inum :
      DeleteCall(m, f, Parent, GrandParent, dir_ni, grandparent_inum,
                 [r0 EXCEPT !.relIno = dir_ni.ino, !.rel2Ino = grandparent_inum],
                 fail))

(* NtfsDeleteFile with the parent directory open in the list: the grandparent
   is looked up and closed *)
DeleteUnder(m0, f, Parent, r0, fail) ==
  With(NtfsLookupParent(m0, Parent), LAMBDA gp :
  With(IF gp # NoFile /\ ~m0.files[gp].IsRoot THEN gp ELSE NoFile,
       LAMBDA GrandParent :
  With(Deref(IF GrandParent # NoFile
               THEN CloseHeld(Deref(m0, GrandParent), GrandParent, "grandparent")
               ELSE m0, Parent), LAMBDA m2 :
    DeleteIn(m2, f, Parent, GrandParent, m2.files[Parent].ni,
             [r0 EXCEPT !.rel = Parent, !.rel2 = GrandParent], fail))))

NtfsDeleteFile(f, fail) ==
  /\ CanCall
  /\ CanFail(fail)
  /\ f \in Held
  /\ With(Machine, LAMBDA m0 :
     With([RetBase EXCEPT !.op = "delete", !.file = f, !.path = files[f].Path],
          LAMBDA r0 :
       IF ~HasBaseName(m0.files[f].Path) THEN Commit(Fault(m0, "ub"), r0, fail)
       ELSE
         With(NtfsLookupParent(m0, f), LAMBDA Parent :
           IF Parent = NoFile
             THEN With(NtfsOpenInodeFromPath(m0, Front(m0.files[f].Path), "dir_ni",
                                             fail # "resolve"), LAMBDA d :
                    IF d.h = NULL
                      THEN Commit(d.m, [r0 EXCEPT !.status =
                                          ErrnoToEfiStatus(d.m.errno)], fail)
                      ELSE DeleteIn(d.m, f, NoFile, NoFile, d.h,
                                    [r0 EXCEPT !.flags = {"fresh"}], fail))
           ELSE IF ~HasBaseName(m0.files[Parent].Path)
             THEN Commit(Fault(m0, "ub"), r0, fail)
           ELSE DeleteUnder(m0, f, Parent, r0, fail))))

(* ------------------------------------------------------------------ *)
(* NtfsMoveFile                                                         *)
(* ------------------------------------------------------------------ *)
MoveFails ==
  {"none", "resolveP", "resolveNP", "open1", "link", "delete", "open2", "open3",
   "resolveNew"}

(* What ntfs_link answers on live inodes *)
LinkEntry(m, ni, dir_ni, name, var, ok, args, exists) ==
  IF ok /\ args /\ ~exists /\ IS_DIR(m, dir_ni)
    THEN [m |-> Ev([m EXCEPT !.dirents =
                      @ \cup {[dir |-> dir_ni.ino, name |-> name,
                               ino |-> ni.ino]}],
                   "link", var, ni.ino, dir_ni.ino),
          r |-> 0]
    ELSE [m |-> Ev([Inject(m, ok) EXCEPT !.errno =
                      IF ~ok THEN "EIO"
                      ELSE IF ~args THEN "EINVAL"
                      ELSE IF exists THEN "EEXIST"
                      ELSE "ENOTDIR"],
                   "link", var, NoInode, dir_ni.ino),
          r |-> -1]

(* ntfs_link(ni, dir_ni, name): a further entry for ni in dir_ni *)
ntfs_link(m, ni, dir_ni, name, var, ok) ==
  IF (ni # NULL /\ ~ni.live) \/ (dir_ni # NULL /\ ~dir_ni.live)
    THEN [m |-> Fault(m, "ub"), r |-> -1]
  ELSE LinkEntry(m, ni, dir_ni, name, var, ok,
                 ni # NULL /\ dir_ni # NULL /\ ni.ino # dir_ni.ino,
                 Child(m.dirents, dir_ni.ino, name) # NoInode)

Closed(h) == IF h = NULL THEN h ELSE [h EXCEPT !.live = FALSE]

(* ntfs_inode_close() on a local inode pointer that may also be the one the
   file instance owner holds *)
CloseLocal(m, h, owner, var) ==
  IF owner # NoFile /\ m.files[owner].ni = h
    THEN Dangle(ntfs_inode_close(m, h, var), owner)
    ELSE ntfs_inode_close(m, h, var)

(* SameDir with the base name of Path left in place *)
SameDir_Uncut(Path, NewPath) == Front(NewPath) = Path

(* SameDir: the directory part of NewPath is the directory part of Path *)
SameDir(Path, NewPath) == Front(NewPath) = Front(Path)

(* ParentIsChildOfNewParent with the two paths taken for each other *)
ParentIsChild_Reversed(Path, NewPath) ==
  Front(NewPath) # << >> /\ Front(Front(NewPath)) = Front(Path)

(* ParentIsChildOfNewParent, from the two paths *)
ParentIsChild(Path, NewPath) ==
  Front(Path) # << >> /\ Front(Front(Path)) = Front(NewPath)

(* One of the two directory inodes at the label out: closed when NtfsMoveFile
   opened it, stored into its file instance otherwise *)
PutBack(m, owner, h, var) ==
  IF owner = NoFile THEN ntfs_inode_close(m, h, var)
  ELSE Ev([m EXCEPT !.files[owner].ni = h], "store", var, h.ino, NoInode)

(* The label out of NtfsMoveFile.  L holds the locals of the function. *)
MoveOut(L) ==
  With(IF L.ParentIsChildOfNewParent
         THEN PutBack(L.m, L.NewParent, L.newparent_ni, "newparent_ni")
         ELSE L.m, LAMBDA m1 :
  With(PutBack(m1, L.Parent, L.parent_ni, "parent_ni"), LAMBDA m2 :
    [L EXCEPT !.m = IF ~L.SameDir /\ ~L.ParentIsChildOfNewParent
                      THEN PutBack(m2, L.NewParent, L.newparent_ni, "newparent_ni")
                      ELSE m2,
              !.mark = Len(L.m.trace)]))

(* After the old entry is deleted: the directories are opened again and the
   inode is resolved under its new name.  p and n are the two reopenings, dir
   the directory the new name is in, o the resolution. *)
MoveResolved(L3, f, p, n, dir, o) ==
  With([L3 EXCEPT !.m = o.m, !.parent_ni = p.h, !.newparent_ni = n.h], LAMBDA L4 :
    IF p.h = NULL
      THEN [L4 EXCEPT !.m = Fault(n.m, "ub")]
    ELSE IF o.h = NULL
      THEN [L4 EXCEPT !.Status = ErrnoToEfiStatus(o.m.errno)]
    ELSE IF dir = NULL
      THEN [L4 EXCEPT !.m = Fault(o.m, "ub")]
    ELSE [L4 EXCEPT !.m = [o.m EXCEPT !.files[f].ni = SetDirty(o.h)],
                    !.parent_ni = SetDirty(p.h),
                    !.newparent_ni = SetDirty(n.h),
                    !.Status = "EFI_SUCCESS"])

(* From the reopening of the parent to the label out *)
MoveReopen(L3, f, NewPath, fail) ==
  With(ntfs_inode_open([L3.m EXCEPT !.files[f].ni = NULL], L3.parent_inum,
                       "parent_ni", fail # "open2"), LAMBDA p :
  With(IF ~L3.SameDir
         THEN ntfs_inode_open(p.m, L3.newparent_inum, "newparent_ni",
                              fail # "open3")
         ELSE [m |-> p.m, h |-> L3.newparent_ni], LAMBDA n :
  With(IF L3.SameDir THEN p.h ELSE n.h, LAMBDA dir :
    MoveResolved(L3, f, p, n, dir,
                 ntfs_pathname_to_inode(n.m, dir, << Last(NewPath) >>, "ni",
                                        fail # "resolveNew")))))

(* From the change of the path to the label out: m1 is the machine after a
   successful ntfs_link *)
MoveUnlink(L, f, ni, OldBaseName, NewPath, m1, fail) ==
  With(ntfs_delete(IF ~L.SameDir
                     THEN CloseLocal(m1, L.newparent_ni, L.NewParent, "newparent_ni")
                     ELSE m1,
                   ni, L.parent_ni, OldBaseName, "parent_ni", fail # "delete"),
       LAMBDA d :
  With(Dangle(Dangle(d.m, f), L.Parent), LAMBDA m3 :
  With([L EXCEPT !.m = m3,
                 !.newparent_ni = IF ~L.SameDir THEN Closed(L.newparent_ni)
                                  ELSE L.newparent_ni,
                 !.parent_ni = Closed(L.parent_ni)], LAMBDA L3 :
    IF d.r # 0
      THEN [L3 EXCEPT !.Status = ErrnoToEfiStatus(m3.errno)]
      ELSE MoveReopen(L3, f, NewPath, fail))))

(* From "Create the target" to the label out *)
MoveLink(L, f, NewPath, fail) ==
  With(ntfs_link(L.m, L.m.files[f].ni,
                 IF L.SameDir THEN L.parent_ni ELSE L.newparent_ni,
                 Last(NewPath),
                 IF L.SameDir THEN "parent_ni" ELSE "newparent_ni",
                 fail # "link"), LAMBDA l :
    IF l.r # 0
      THEN [L EXCEPT !.m = l.m, !.Status = ErrnoToEfiStatus(l.m.errno)]
      ELSE MoveUnlink(L, f, L.m.files[f].ni, Last(L.m.files[f].Path), NewPath,
                      [l.m EXCEPT !.files[f].Path = NewPath], fail))

(* NtfsMoveFile to another directory, from the lookup of the new parent on *)
MoveAcross(L, f, NewPath, NewParent, fail) ==
  With(IF NewParent # NoFile
         THEN [m |-> L.m, h |-> L.m.files[NewParent].ni]
         ELSE NtfsOpenInodeFromPath(
                CloseLocal(L.m, L.parent_ni, L.Parent, "parent_ni"),
                Front(NewPath), "newparent_ni", fail # "resolveNP"), LAMBDA n :
  With(IF NewParent # NoFile
         THEN [m |-> n.m, h |-> L.parent_ni]
         ELSE ntfs_inode_open(n.m, L.parent_ni.ino, "parent_ni", fail # "open1"),
       LAMBDA p :
  With([L EXCEPT !.m = p.m, !.parent_inum = L.parent_ni.ino,
                 !.NewParent = NewParent, !.parent_ni = p.h,
                 !.newparent_ni = n.h], LAMBDA L1 :
    IF n.h = NULL
      THEN [L1 EXCEPT !.Status = ErrnoToEfiStatus(p.m.errno)]
    ELSE IF ~n.h.live
      THEN [L1 EXCEPT !.m = Fault(p.m, "ub")]
    ELSE MoveLink([L1 EXCEPT !.newparent_inum = n.h.ino,
                             !.ParentIsChildOfNewParent =
                                ParentIsChild(L.m.files[f].Path, NewPath)],
                  f, NewPath, fail))))

(* From the test of parent_ni to the label out *)
MoveBody(L, f, NewPath, fail) ==
  IF L.parent_ni = NULL
    THEN [L EXCEPT !.Status = ErrnoToEfiStatus(L.m.errno)]
  ELSE IF ~L.parent_ni.live
    THEN [L EXCEPT !.m = Fault(L.m, "ub")]
  ELSE IF ntfs_forbidden_names(Last(NewPath))
    THEN [L EXCEPT !.parent_inum = L.parent_ni.ino,
                   !.Status = "EFI_INVALID_PARAMETER"]
  ELSE IF L.SameDir
    THEN MoveLink([L EXCEPT !.parent_inum = L.parent_ni.ino], f, NewPath, fail)
  ELSE MoveAcross(L, f, NewPath,
                  NtfsLookupPath(L.m, Front(NewPath), NoFile, TRUE), fail)

(* The locals of NtfsMoveFile once parent_ni is set: p is the machine and the
   inode that getting the parent directory left *)
MoveLocals(p, Parent, Path, NewPath) ==
  [m |-> p.m, Status |-> "EFI_ACCESS_DENIED", Parent |-> Parent,
   NewParent |-> NoFile, SameDir |-> SameDir(Path, NewPath),
   ParentIsChildOfNewParent |-> FALSE,
   parent_ni |-> p.h, newparent_ni |-> NULL,
   parent_inum |-> NoInode, newparent_inum |-> NoInode,
   mark |-> 0]

(* What NtfsMoveFile returns with the locals L *)
MoveReturn(L, r0) ==
  [m |-> L.m,
   r |-> [r0 EXCEPT !.status = L.Status, !.rel = L.Parent,
                    !.relIno = L.parent_inum, !.rel2 = L.NewParent,
                    !.rel2Ino = L.newparent_inum, !.mark = L.mark,
                    !.flags =
                       (IF L.SameDir THEN {"SameDir"} ELSE {}) \cup
                       (IF L.ParentIsChildOfNewParent
                          THEN {"ParentIsChildOfNewParent"} ELSE {})]]

(* NtfsMoveFile(File, NewPath) on m0: the state m it leaves and what it
   returns, r *)
MoveFile(m0, f, NewPath, r0, fail) ==
  IF m0.files[f].Path = NewPath
    THEN [m |-> m0, r |-> [r0 EXCEPT !.flags = {"same"}]]
  ELSE IF Deref(m0, f).fault # "none" \/ ~HasBaseName(m0.files[f].Path)
    THEN [m |-> Fault(m0, "ub"), r |-> r0]
  ELSE IF IS_DIRTY(m0.files[f].ni)
    THEN [m |-> m0, r |-> [r0 EXCEPT !.status = "EFI_ACCESS_DENIED",
                                     !.flags = {"dirty"}]]
  ELSE
    With(NtfsLookupParent(m0, f), LAMBDA Parent :
      MoveReturn(
        MoveOut(MoveBody(
          MoveLocals(IF Parent = NoFile
                       THEN NtfsOpenInodeFromPath(m0, Front(m0.files[f].Path),
                                                  "parent_ni", fail # "resolveP")
                       ELSE [m |-> m0, h |-> m0.files[Parent].ni],
                     Parent, m0.files[f].Path, NewPath),
          f, NewPath, fail)),
        r0))

NtfsMoveFile(f, NewPath, fail) ==
  /\ CanCall
  /\ CanFail(fail)
  /\ f \in Held
  /\ With(MoveFile(Machine, f, NewPath,
                   [RetBase EXCEPT !.op = "move", !.file = f,
                                   !.path = files[f].Path,
                                   !.newpath = NewPath], fail),
          LAMBDA o : Commit(o.m, o.r, fail))

(* ------------------------------------------------------------------ *)
(* A call of ErrnoToEfiStatus() with errno as a library call left it    *)
(* ------------------------------------------------------------------ *)
ErrnoCall(errno) ==
  /\ CanCall
  /\ nops' = nops + 1
  /\ ret' = [RetBase EXCEPT !.op = "errno", !.errno = errno,
                            !.status = ErrnoToEfiStatus(errno)]
  /\ UNCHANGED << files, list, dirents, itype, nopen, fault, nfail, io, fs >>

(* ------------------------------------------------------------------ *)
(* NtfsReadFile                                                         *)
(* ------------------------------------------------------------------ *)
(* The sizes, offsets and lengths a read is tried on.  A length is a UINTN
   that fits an s64, as the size of a buffer does. *)
DataSizes == 0..MaxSize \cup {100}
Offsets == 0..MaxOffset \cup {90, 150}
Lengths == 0..MaxLen \cup {50}

(* What ntfs_attr_pread() returns, call after call: -1 with errno set, or a
   number of bytes, which may be none, fewer or more than asked for.  Once the
   sequence is used up it returns what it was asked for. *)
PreadReturns == {-1, 0, 1, 200}
PreadSeqs == UNION {[1..n -> PreadReturns] : n \in 0..MaxPreads}

(* The test with an Offset at the end of the data taken for one past it *)
ReadClamp_AtEnd(Offset, size, max_read) ==
  IF Offset + size > max_read
    THEN IF Offset >= max_read
           THEN [error |-> TRUE, size |-> size]
           ELSE [error |-> FALSE, size |-> max_read - Offset]
    ELSE [error |-> FALSE, size |-> size]

(* The test of File->Offset + size against na->data_size *)
ReadClamp(Offset, size, max_read) ==
  IF Offset + size > max_read
    THEN IF Offset > max_read
           THEN [error |-> TRUE, size |-> size]
           ELSE [error |-> FALSE, size |-> max_read - Offset]
    ELSE [error |-> FALSE, size |-> size]

(* The loop taking a ntfs_attr_pread() of no byte for the end of the data *)
RECURSIVE ReadLoop_ZeroEnds(_, _)
ReadLoop_ZeroEnds(s, rets) ==
  IF s.size <= 0 THEN [s EXCEPT !.status = "EFI_SUCCESS"]
  ELSE
    With(IF rets = << >> THEN s.size ELSE Head(rets), LAMBDA r :
    With([s EXCEPT !.preads = Append(@, [want |-> s.size, got |-> r])], LAMBDA s1 :
      IF r = 0 THEN [s1 EXCEPT !.status = "EFI_SUCCESS"]
      ELSE IF r < 0 \/ r > s.size
        THEN [s1 EXCEPT !.status =
                ErrnoToEfiStatus(IF r >= 0 THEN "EIO" ELSE "EINVAL")]
      ELSE ReadLoop_ZeroEnds([s1 EXCEPT !.size = @ - r, !.Offset = @ + r,
                                        !.Len = @ + r],
                             IF rets = << >> THEN rets ELSE Tail(rets))))

(* The loop of NtfsReadFile on s = [size, Offset, Len, preads] *)
RECURSIVE ReadLoop(_, _)
ReadLoop(s, rets) ==
  IF s.size <= 0 THEN [s EXCEPT !.status = "EFI_SUCCESS"]
  ELSE
    With(IF rets = << >> THEN s.size ELSE Head(rets), LAMBDA r :
    With([s EXCEPT !.preads = Append(@, [want |-> s.size, got |-> r])], LAMBDA s1 :
      IF r <= 0 \/ r > s.size
        THEN [s1 EXCEPT !.status =
                ErrnoToEfiStatus(IF r >= 0 THEN "EIO" ELSE "EINVAL")]
      ELSE ReadLoop([s1 EXCEPT !.size = @ - r, !.Offset = @ + r, !.Len = @ + r],
                    IF rets = << >> THEN rets ELSE Tail(rets))))

NtfsReadFile(Length, openOk, rets) ==
  /\ With([io EXCEPT !.op = "read", !.before = io.Offset, !.req = Length,
                     !.Len = 0, !.opened = openOk, !.preads = << >>,
                     !.size0 = io.data_size, !.updated = FALSE], LAMBDA r0 :
     With(ReadClamp(io.Offset, Length, io.data_size), LAMBDA c :
       IF ~openOk THEN io' = [r0 EXCEPT !.status = ErrnoToEfiStatus("EIO")]
       ELSE IF c.error THEN io' = [r0 EXCEPT !.status = "EFI_DEVICE_ERROR"]
       ELSE
         With(ReadLoop([size |-> c.size, Offset |-> io.Offset, Len |-> 0,
                        preads |-> << >>, status |-> "EFI_SUCCESS"], rets),
              LAMBDA l :
           io' = [r0 EXCEPT !.Offset = l.Offset, !.Len = l.Len,
                            !.status = l.status, !.preads = l.preads,
                            !.updated = (l.status = "EFI_SUCCESS" /\ ~io.vol_ro)])))
  /\ UNCHANGED << files, list, dirents, itype, nopen, ret, fault, nops, nfail, fs >>

(* ------------------------------------------------------------------ *)
(* NtfsWriteFile                                                        *)
(* ------------------------------------------------------------------ *)
(* The attribute flags of an inode that the bridge reads or writes *)
AttrFlags == {"FILE_ATTR_READONLY", "FILE_ATTR_HIDDEN"}

(* What ntfs_attr_pwrite() returns, call after call: -1 with errno set, or a
   number of bytes, which may be none or fewer than asked for.  Once the
   sequence is used up it returns what it was asked for. *)
PwriteReturns == {-1, 0, 1}
PwriteSeqs == UNION {[1..n -> PwriteReturns] : n \in 0..MaxPreads}

(* The data size after ntfs_attr_pwrite() wrote r bytes at pos *)
ntfs_attr_pwrite(data_size, pos, r) ==
  IF r > 0 /\ pos + r > data_size THEN pos + r ELSE data_size

(* The test of another bit of ni->flags *)
IsReadOnly_Hidden(flags) == "FILE_ATTR_HIDDEN" \in flags

(* ni->flags & FILE_ATTR_READONLY *)
IsReadOnly(flags) == "FILE_ATTR_READONLY" \in flags

(* The loop of NtfsWriteFile on s = [size, Offset, Len, data_size, preads] *)
RECURSIVE WriteLoop(_, _)
WriteLoop(s, rets) ==
  IF s.size <= 0 THEN [s EXCEPT !.status = "EFI_SUCCESS"]
  ELSE
    With(IF rets = << >> THEN s.size ELSE Head(rets), LAMBDA r :
    With([s EXCEPT !.preads = Append(@, [want |-> s.size, got |-> r]),
                   !.data_size = ntfs_attr_pwrite(@, s.Offset, r)], LAMBDA s1 :
      IF r <= 0
        THEN [s1 EXCEPT !.status =
                ErrnoToEfiStatus(IF r >= 0 THEN "EIO" ELSE "EINVAL")]
      ELSE WriteLoop([s1 EXCEPT !.size = @ - r, !.Offset = @ + r, !.Len = @ + r],
                     IF rets = << >> THEN rets ELSE Tail(rets))))

NtfsWriteFile(Length, openOk, rets) ==
  /\ io.Offset <= MaxOffset
  /\ With([io EXCEPT !.op = "write", !.before = io.Offset, !.req = Length,
                     !.Len = 0, !.opened = FALSE, !.preads = << >>,
                     !.size0 = io.data_size, !.updated = FALSE], LAMBDA r0 :
       IF IsReadOnly(io.flags)
         THEN io' = [r0 EXCEPT !.status = "EFI_WRITE_PROTECTED"]
       ELSE IF ~openOk THEN io' = [r0 EXCEPT !.status = ErrnoToEfiStatus("EIO")]
       ELSE
         With(WriteLoop([size |-> Length, Offset |-> io.Offset, Len |-> 0,
                         data_size |-> io.data_size, preads |-> << >>,
                         status |-> "EFI_SUCCESS"], rets),
              LAMBDA l :
           io' = [r0 EXCEPT !.opened = TRUE, !.Offset = l.Offset, !.Len = l.Len,
                            !.data_size = l.data_size,
                            !.status = l.status, !.preads = l.preads,
                            !.updated = (l.status = "EFI_SUCCESS")]))
  /\ UNCHANGED << files, list, dirents, itype, nopen, ret, fault, nops, nfail, fs >>

(* ------------------------------------------------------------------ *)
(* NtfsSetFileInfo                                                      *)
(* ------------------------------------------------------------------ *)
(* The fields of an EFI_FILE_INFO that NtfsSetFileInfo looks at.  time is the
   one of the three EFI_TIME fields that is not zero, if any; FileName is
   empty, relative or an absolute path. *)
InfoTimes == {"CreateTime", "LastAccessTime", "ModificationTime"}
InfoSizes == {1, 2}
InfoAttributes == {{}, {"EFI_FILE_READ_ONLY"}}
InfoNames ==
  {[abs |-> FALSE, path |-> P_EMPTY], [abs |-> FALSE, path |-> <<"c">>]} \cup
  {[abs |-> TRUE, path |-> p] : p \in MovePaths}

Infos ==
  [Directory : BOOLEAN, time : InfoTimes \cup {"none"}, FileName : InfoNames,
   FileSize : InfoSizes, Attribute : InfoAttributes, ReadOnly : BOOLEAN]

NoInfo ==
  [Directory |-> FALSE, time |-> "none",
   FileName |-> [abs |-> FALSE, path |-> P_EMPTY], FileSize |-> 1,
   Attribute |-> {}, ReadOnly |-> FALSE]

(* data_size, flags and the times of an inode that a SetInfo has written *)
InodeAttr == [data_size |-> 1, flags |-> {}, times |-> {}]

InfoFails == {"none", "strdup", "attr_open", "truncate", "link", "resolveNew"}

(* The root, a file and a directory, to open and set the information of *)
InfoPaths == {P_ROOT, <<"a", "b">>, <<"a", "sub">>}

(* ni->flags after the four bits are cleared and set from Info->Attribute *)
SetFlags(flags, Attribute) ==
  (flags \ AttrFlags)
    \cup (IF "EFI_FILE_READ_ONLY" \in Attribute THEN {"FILE_ATTR_READONLY"} ELSE {})
    \cup (IF "EFI_FILE_HIDDEN" \in Attribute THEN {"FILE_ATTR_HIDDEN"} ELSE {})

(* What a return of NtfsSetFileInfo leaves behind *)
InfoCommit(m, r, fail, attr, Info) ==
  /\ CommitVol(m, r, fail)
  /\ io' = [io EXCEPT !.ninfo = @ + 1, !.info = Info,
                      !.attr = IF m.fault = "none" THEN attr ELSE @]

(* The times and the flags are written and EFI_SUCCESS is returned *)
InfoAttr(m, i, Info, r0, fail, attr) ==
  InfoCommit(m, [r0 EXCEPT !.flags = @ \cup {"attr"}], fail,
             [attr EXCEPT ![i].times =
                            IF Info.time = "none" THEN @ ELSE @ \cup {Info.time},
                          ![i].flags = SetFlags(@, Info.Attribute)],
             Info)

(* From ni = File->NtfsInode on: the change of size *)
InfoSize(m, f, Info, r0, fail) ==
  IF Deref(m, f).fault # "none"
    THEN InfoCommit(Fault(m, "ub"), r0, fail, io.attr, Info)
  ELSE IF ~IS_DIR(m, m.files[f].ni)
            /\ Info.FileSize # io.attr[m.files[f].ni.ino].data_size
    THEN IF Info.ReadOnly
           THEN InfoCommit(m, [r0 EXCEPT !.status = "EFI_ACCESS_DENIED"], fail,
                           io.attr, Info)
         ELSE IF fail = "attr_open"
           THEN InfoCommit([Inject(m, FALSE) EXCEPT !.errno = "EIO"],
                           [r0 EXCEPT !.status = ErrnoToEfiStatus("EIO")], fail,
                           io.attr, Info)
         ELSE IF fail = "truncate"
           THEN InfoCommit([Inject(m, FALSE) EXCEPT !.errno = "ENOSPC"],
                           [r0 EXCEPT !.status = ErrnoToEfiStatus("ENOSPC")], fail,
                           io.attr, Info)
         ELSE InfoAttr(m, m.files[f].ni.ino, Info,
                       [r0 EXCEPT !.flags = @ \cup {"truncate"}], fail,
                       [io.attr EXCEPT ![m.files[f].ni.ino].data_size = Info.FileSize])
  ELSE InfoAttr(m, m.files[f].ni.ino, Info, r0, fail, io.attr)

(* An absolute Info->FileName: the path it is cleaned to, and the move *)
InfoName(m0, f, Info, r0, fail) ==
  IF fail = "strdup"
    THEN InfoCommit(Inject(m0, FALSE), [r0 EXCEPT !.status = "EFI_OUT_OF_RESOURCES"],
                    fail, io.attr, Info)
  ELSE IF Info.FileName.path # m0.files[f].Path
    THEN IF Info.ReadOnly
           THEN InfoCommit(m0, [r0 EXCEPT !.status = "EFI_ACCESS_DENIED"], fail,
                           io.attr, Info)
         ELSE
           With(MoveFile(m0, f, Info.FileName.path,
                         [r0 EXCEPT !.newpath = Info.FileName.path], fail),
                LAMBDA o :
             IF o.m.fault # "none" \/ o.r.status # "EFI_SUCCESS"
               THEN InfoCommit(o.m, o.r, fail, io.attr, Info)
             ELSE InfoSize(o.m, f, Info, [o.r EXCEPT !.flags = @ \cup {"move"}], fail))
  ELSE InfoSize(m0, f, Info, r0, fail)

NtfsSetFileInfo(f, Info, fail) ==
  /\ CanCall
  /\ CanFail(fail)
  /\ f \in Held
  /\ io.ninfo < MaxInfos
  /\ With(Machine, LAMBDA m0 :
     With([RetBase EXCEPT !.op = "setinfo", !.file = f, !.path = files[f].Path],
          LAMBDA r0 :
       IF Deref(m0, f).fault # "none"
         THEN InfoCommit(Fault(m0, "ub"), r0, fail, io.attr, Info)
       ELSE IF IS_DIR(m0, m0.files[f].ni) # Info.Directory
         THEN InfoCommit(m0, [r0 EXCEPT !.status = "EFI_ACCESS_DENIED",
                                        !.flags = {"type"}], fail, io.attr, Info)
       ELSE IF Info.ReadOnly /\ Info.time # "none"
         THEN InfoCommit(m0, [r0 EXCEPT !.status = "EFI_ACCESS_DENIED"], fail,
                         io.attr, Info)
       ELSE IF Info.FileName.abs
         THEN InfoName(m0, f, Info, r0, fail)
       ELSE InfoSize(m0, f, Info, r0, fail)))

(* ------------------------------------------------------------------ *)
(* NtfsMountVolume and NtfsUnmountVolume                                *)
(* ------------------------------------------------------------------ *)
(* A volume serial number; 0 is what an EFI_FS that was never mounted has *)
Serials == 0..MaxSerial

(* No ntfs_volume: FileSystem->NtfsVolume before the first mount *)
NoVolume == 0

(* What ntfs_volume_error(errno) says of a failed ntfs_mount() *)
MountErrors ==
  {"NTFS_VOLUME_CORRUPT", "NTFS_VOLUME_LOCKED", "NTFS_VOLUME_NO_PRIVILEGE",
   "NTFS_VOLUME_OUT_OF_MEMORY", "NTFS_VOLUME_NOT_NTFS"}

MountError(e) ==
  CASE e = "NTFS_VOLUME_CORRUPT" -> "EFI_VOLUME_CORRUPTED"
    [] e \in {"NTFS_VOLUME_LOCKED", "NTFS_VOLUME_NO_PRIVILEGE"} -> "EFI_ACCESS_DENIED"
    [] e = "NTFS_VOLUME_OUT_OF_MEMORY" -> "EFI_OUT_OF_RESOURCES"
    [] OTHER -> "EFI_NOT_FOUND"

(* The EFI_FS of a volume that is mounted once *)
FsMounted ==
  [MountCount |-> 1, NtfsVolumeSerial |-> 1, NtfsVolume |-> 1, InFsList |-> TRUE,
   mounts |-> 1, live |-> {1}, vol |-> 1, vol_serial |-> 1]

(* The EFI_FS of a volume that was never mounted *)
FsFresh ==
  [MountCount |-> 0, NtfsVolumeSerial |-> 0, NtfsVolume |-> NoVolume,
   InFsList |-> FALSE, mounts |-> 0, live |-> {}, vol |-> NoVolume,
   vol_serial |-> 0]

(* The test of the mount count taken one mount too late *)
AlreadyMounted_Late(MountCount) == MountCount > 1

(* "Don't double mount a volume": the test of FileSystem->MountCount++ *)
AlreadyMounted(MountCount) == MountCount > 0

(* The comparison of the two serials inverted *)
SerialChanged_Inverted(NtfsVolumeSerial, vol_serial) ==
  NtfsVolumeSerial # 0 /\ vol_serial = NtfsVolumeSerial

(* The volume mounted is not the one whose serial was stored *)
SerialChanged(NtfsVolumeSerial, vol_serial) ==
  NtfsVolumeSerial # 0 /\ vol_serial # NtfsVolumeSerial

(* ntfs_mount(device, flags): a new ntfs_volume of the serial on the device,
   or NULL *)
ntfs_mount(F, e, serial) ==
  IF e = "ok"
    THEN [F EXCEPT !.mounts = @ + 1, !.live = @ \cup {F.mounts + 1},
                   !.vol = F.mounts + 1, !.vol_serial = serial]
    ELSE [F EXCEPT !.mounts = @ + 1, !.vol = NoVolume, !.vol_serial = 0]

(* NtfsMountVolume from the insertion in FsListHead on: F is the EFI_FS after
   ntfs_mount() *)
MountNew(F, e, r0) ==
  With(IF F.vol = NoVolume
         THEN IF F.NtfsVolumeSerial # 0 THEN "EFI_NO_MEDIA" ELSE MountError(e)
       ELSE IF SerialChanged(F.NtfsVolumeSerial, F.vol_serial)
         THEN "EFI_MEDIA_CHANGED"
       ELSE "EFI_SUCCESS", LAMBDA Status :
    /\ list' = << >>
    /\ ret' = [r0 EXCEPT !.status = Status,
                         !.flags = {"ntfs_mount", "InitializeListHead"}]
    /\ fs' = IF EFI_ERROR(Status)
               THEN [F EXCEPT !.InFsList = FALSE]
               ELSE [F EXCEPT !.InFsList = TRUE,
                              !.NtfsVolumeSerial = F.vol_serial,
                              !.NtfsVolume = F.vol])

MountInputs == MountErrors \cup {"ok"}

NtfsMountVolume(utf8Ok, e, serial) ==
  /\ fault = "none"
  /\ nops < MaxOps
  /\ fs.MountCount < MaxMounts
  /\ fs.mounts < MaxMounts
  /\ nops' = nops + 1
  /\ With([RetBase EXCEPT !.op = "mount"], LAMBDA r0 :
     With([fs EXCEPT !.MountCount = @ + 1], LAMBDA F :
       IF AlreadyMounted(fs.MountCount)
         THEN /\ fs' = F
              /\ ret' = r0
              /\ list' = list
       ELSE IF ~utf8Ok
         THEN /\ fs' = F
              /\ ret' = [r0 EXCEPT !.status = ErrnoToEfiStatus("EILSEQ"),
                                   !.errno = "EILSEQ"]
              /\ list' = list
       ELSE MountNew(ntfs_mount(F, e, serial), e, r0)))
  /\ UNCHANGED << files, dirents, itype, nopen, fault, nfail, io >>

(* ntfs_umount(vol): the volume and every inode open on it are gone *)
ntfs_umount(F) == [F EXCEPT !.live = @ \ {F.NtfsVolume}]

(* NtfsLookupFree reads Entry->ForwardLink from the entry it has just freed:
   the pool either still holds the link (intact) or does not *)
NtfsUnmountVolume(intact) ==
  /\ fault = "none"
  /\ nops < MaxOps
  /\ fs.MountCount > 0
  /\ nops' = nops + 1
  /\ IF (fs.NtfsVolume # NoVolume /\ fs.NtfsVolume \notin fs.live)
        \/ (list # << >> /\ ~intact)
       THEN /\ fault' = "ub"
            /\ ret' = [RetBase EXCEPT !.op = "unmount", !.status = "FAULT"]
            /\ UNCHANGED << files, list, nopen, fs >>
       ELSE /\ fault' = fault
            /\ ret' = [RetBase EXCEPT !.op = "unmount",
                                      !.flags = IF list # << >> THEN {"freed"} ELSE {}]
            /\ list' = << >>
            /\ files' = [f \in FileIds |->
                           IF files[f].ni = NULL THEN files[f]
                           ELSE [files[f] EXCEPT !.ni.live = FALSE]]
            /\ nopen' = [i \in Inodes |-> 0]
            /\ fs' = [ntfs_umount(fs) EXCEPT !.MountCount = 0, !.InFsList = FALSE]
  /\ UNCHANGED << dirents, itype, nfail, io >>

(* NtfsOpenFile and NtfsCloseFile as the driver calls them: on a volume that
   is mounted *)
IsMounted == fs.MountCount > 0 /\ fs.NtfsVolume \in fs.live

(* ------------------------------------------------------------------ *)
(* The specification                                                    *)
(* ------------------------------------------------------------------ *)
IoBase ==
  [op |-> "none", data_size |-> 0, Offset |-> 0, before |-> 0, req |-> 0,
   Len |-> 0, status |-> "EFI_SUCCESS", opened |-> FALSE, preads |-> << >>,
   flags |-> {}, vol_ro |-> FALSE, size0 |-> 0, updated |-> FALSE,
   attr |-> [i \in Inodes |-> InodeAttr], ninfo |-> 0, info |-> NoInfo]

InitVolume ==
  /\ files = [f \in FileIds |-> FreeFile]
  /\ list = << >>
  /\ dirents = InitDirents
  /\ itype = InitType
  /\ nopen = [i \in Inodes |-> 0]
  /\ ret = RetBase
  /\ fault = "none"
  /\ nops = 0
  /\ nfail = 0

Init == InitVolume /\ io = IoBase /\ fs = FsMounted

Next ==
  \/ \E p \in OpenPaths, fail \in OpenFails : NtfsOpenFile(p, fail)
  \/ \E f \in FileIds, fail \in CloseFails : NtfsCloseFile(f, fail)
  \/ \E f \in FileIds, flag \in DirtyFlags : MarkDirty(f, flag)
  \/ \E f \in FileIds, fail \in FlushFails : NtfsFlushFile(f, fail)
  \/ \E f \in FileIds, fail \in DeleteFails : NtfsDeleteFile(f, fail)
  \/ \E f \in FileIds, p \in MovePaths, fail \in MoveFails : NtfsMoveFile(f, p, fail)
  \/ \E p \in CreatePaths, d \in BOOLEAN, fail \in CreateFails :
        NtfsCreateFile(p, d, fail)

Spec == Init /\ [][Next]_vars

(* Reads of one file, from any data size and Offset *)
InitIO ==
  /\ InitVolume
  /\ fs = FsMounted
  /\ \E S \in DataSizes, O \in Offsets, ro \in BOOLEAN :
       io = [IoBase EXCEPT !.data_size = S, !.Offset = O, !.vol_ro = ro]

NextIO ==
  \E Length \in Lengths, openOk \in BOOLEAN, rets \in PreadSeqs :
    NtfsReadFile(Length, openOk, rets)

SpecIO == InitIO /\ [][NextIO]_vars

(* Conversions of errno, one after the other *)
NextErrno == \E errno \in Errnos : ErrnoCall(errno)

SpecErrno == Init /\ [][NextErrno]_vars

(* Writes and reads of one file, from any data size, Offset and attribute
   flags *)
InitWrite ==
  /\ InitVolume
  /\ fs = FsMounted
  /\ \E S \in DataSizes, O \in 0..MaxOffset, F \in SUBSET AttrFlags :
       io = [IoBase EXCEPT !.data_size = S, !.Offset = O, !.flags = F]

NextWrite ==
  \/ \E Length \in Lengths, openOk \in BOOLEAN, rets \in PwriteSeqs :
       NtfsWriteFile(Length, openOk, rets)
  \/ \E Length \in Lengths, openOk \in BOOLEAN, rets \in PreadSeqs :
       NtfsReadFile(Length, openOk, rets)

SpecWrite == InitWrite /\ [][NextWrite]_vars

(* Files and directories are opened, then SetInfo is called on one of them;
   the inodes are of either size *)
InitInfo ==
  /\ InitVolume
  /\ fs = FsMounted
  /\ \E S \in InfoSizes :
       io = [IoBase EXCEPT !.attr = [i \in Inodes |-> [InodeAttr EXCEPT !.data_size = S]]]

NextInfo ==
  \/ io.ninfo = 0 /\ \E p \in InfoPaths : NtfsOpenFile(p, "none")
  \/ io.ninfo < MaxInfos /\ \E f \in Held, Info \in Infos, fail \in InfoFails :
       NtfsSetFileInfo(f, Info, fail)

SpecInfo == InitInfo /\ [][NextInfo]_vars

(* Mounts and unmounts of a volume, from before its first mount, with files
   opened and closed while it is mounted *)
InitMount == InitVolume /\ io = IoBase /\ fs = FsFresh

NextMount ==
  \/ \E utf8Ok \in BOOLEAN, e \in MountInputs, serial \in Serials :
        NtfsMountVolume(utf8Ok, e, serial)
  \/ \E intact \in BOOLEAN : NtfsUnmountVolume(intact)
  \/ \E p \in OpenPaths : IsMounted /\ NtfsOpenFile(p, "none")
  \/ \E f \in FileIds : IsMounted /\ NtfsCloseFile(f, "none")

SpecMount == InitMount /\ [][NextMount]_vars

(* ------------------------------------------------------------------ *)
(* Properties                                                           *)
(* ------------------------------------------------------------------ *)
IsOpen(h) == h # NULL /\ h.live
Called == nops' = nops + 1
Returned == ret.status # "FAULT"
Events(r, calls, var) ==
  {i \in DOMAIN r.trace : r.trace[i].call \in calls /\ r.trace[i].var = var}
CleanupOf(r, var) == {i \in Events(r, {"close", "store"}, var) : i > r.mark}

(* C1: at no point do two file instances of the volume both hold an open
   inode for the same inode number *)
C1_SingleOpen ==
  \A f, g \in FileIds :
    (f # g /\ IsOpen(files[f].ni) /\ IsOpen(files[g].ni))
      => files[f].ni.ino # files[g].ni.ino

(* C2: an Open of the path the previous, successful Open was given returns
   the same file instance, calls nothing in the library and leaves the
   lookup list as it is *)
C2_AliasIdempotent ==
  [][(Called /\ ret.op = "open" /\ ret.status = "EFI_SUCCESS"
        /\ ret'.op = "open" /\ ret'.path = ret.path)
       => (ret'.status = "EFI_SUCCESS" /\ ret'.out = ret.out
             /\ ret'.trace = << >> /\ list' = list)]_vars

(* C3: an Open of "" right after a successful Open of "/" that is in the
   lookup list, or the other way round, returns the same file instance,
   flagged IsRoot, and opens no inode *)
C3_RootAliasing ==
  [][(Called /\ ret.op = "open" /\ ret.status = "EFI_SUCCESS"
        /\ InList(list, ret.out)
        /\ ret'.op = "open" /\ {ret.path, ret'.path} = {P_EMPTY, P_ROOT})
       => (ret'.status = "EFI_SUCCESS" /\ ret'.out = ret.out
             /\ files'[ret'.out].IsRoot /\ ret'.trace = << >>)]_vars

(* C4: every file instance in the lookup list holds an inode that is not
   NULL and is open *)
C4_ListedIsOpen ==
  \A i \in DOMAIN list : IsOpen(files[list[i]].ni)

(* C5: when ntfs_delete() fails, NtfsDeleteFile returns
   EFI_WARN_DELETE_FAILURE and the file instance is not in the lookup list *)
C5_DeleteFailureWarns ==
  (ret.op = "delete" /\ "deleteFailed" \in ret.flags)
    => (ret.status = "EFI_WARN_DELETE_FAILURE" /\ ~InList(list, ret.file))

C5_Witness ==
  /\ ret.op = "delete" /\ "deleteFailed" \in ret.flags
  /\ \E i \in Events(ret, {"delete"}, "dir_ni") : ret.trace[i].ino = NoInode
  /\ ret.status = "EFI_WARN_DELETE_FAILURE"

(* C6: NtfsDeleteFile returns EFI_SUCCESS or EFI_WARN_DELETE_FAILURE and
   nothing else *)
C6_DeleteOnlyWarns ==
  (ret.op = "delete" /\ Returned)
    => ret.status \in {"EFI_SUCCESS", "EFI_WARN_DELETE_FAILURE"}

(* C8: when NtfsCloseFile or NtfsFlushFile closed the inode of the parent
   found in the lookup list and ntfs_inode_open() of its number succeeded,
   the parent holds an open inode of the number it had before and is still
   in the lookup list *)
Reacquired(r) ==
  \E i \in Events(r, {"open"}, "parent") : r.trace[i].ino # NoInode

C8_ReopenRestores ==
  (ret.op \in {"close", "flush"} /\ ret.rel # NoFile /\ Reacquired(ret))
    => /\ IsOpen(files[ret.rel].ni)
       /\ files[ret.rel].ni.ino = ret.relIno
       /\ InList(list, ret.rel)

C8_Witness ==
  /\ ret.op = "close" /\ ret.rel # NoFile /\ Reacquired(ret)
  /\ Events(ret, {"close"}, "parent") # {}
  /\ IsOpen(files[ret.rel].ni)

(* C9: a move within one directory makes no library call on newparent_ni,
   finds no NewParent, and links, deletes and resolves in the inode of the
   source directory only *)
C9_SameDirMove ==
  (ret.op = "move" /\ Returned /\ ret.newpath # ret.path
     /\ Front(ret.newpath) = Front(ret.path))
    => /\ \A i \in DOMAIN ret.trace : ret.trace[i].var # "newparent_ni"
       /\ ret.rel2 = NoFile
       /\ \A i \in DOMAIN ret.trace :
            (ret.trace[i].call \in {"link", "delete"}
               \/ (ret.trace[i].call = "resolve" /\ ret.trace[i].var = "ni"))
              => ret.trace[i].from = ret.relIno

C9_Witness ==
  /\ ret.op = "move" /\ ret.status = "EFI_SUCCESS"
  /\ ret.path = <<"a", "b">> /\ ret.newpath = <<"a", "c">>
  /\ \E i \in DOMAIN ret.trace : ret.trace[i].call = "link"

(* C10, as stated: when the destination directory is a child of the source
   directory, the label out releases newparent_ni before parent_ni *)
IntoChild(r) ==
  /\ r.op = "move"
  /\ Front(r.newpath) # << >>
  /\ Front(Front(r.newpath)) = Front(r.path)
  /\ CleanupOf(r, "parent_ni") # {} /\ CleanupOf(r, "newparent_ni") # {}

C10_ChildFirst ==
  IntoChild(ret)
    => \A i \in CleanupOf(ret, "newparent_ni"), j \in CleanupOf(ret, "parent_ni") :
         i < j

(* C10, amended: when the destination directory is a child of the source
   directory, the label out releases parent_ni (closes it, or stores it in
   its file instance) before newparent_ni *)
C10_ParentFirst ==
  IntoChild(ret)
    => \A i \in CleanupOf(ret, "newparent_ni"), j \in CleanupOf(ret, "parent_ni") :
         j < i

C10_Witness ==
  /\ IntoChild(ret) /\ ret.status = "EFI_SUCCESS"
  /\ ret.path = <<"a", "b">> /\ ret.newpath = <<"a", "sub", "b">>

(* C7: with the data attribute open, a read at an Offset past the data size
   returns EFI_DEVICE_ERROR, no byte and the Offset as it was; a read at an
   Offset within the data size whose every ntfs_attr_pread() returns between
   1 byte and what it was asked for returns EFI_SUCCESS and
   min(Length, data size - Offset) bytes, and adds that to the Offset *)
PreadsSucceed(r) ==
  \A i \in DOMAIN r.preads : r.preads[i].got >= 1 /\ r.preads[i].got <= r.preads[i].want

MinLen(a, b) == IF a < b THEN a ELSE b

C7_ReadClamping ==
  (io.op = "read" /\ io.opened)
    => /\ io.before > io.data_size
            => (io.status = "EFI_DEVICE_ERROR" /\ io.Len = 0
                  /\ io.Offset = io.before)
       /\ (io.before <= io.data_size /\ PreadsSucceed(io))
            => (io.status = "EFI_SUCCESS"
                  /\ io.Len = MinLen(io.req, io.data_size - io.before)
                  /\ io.Offset = io.before + io.Len)

C7_Witness ==
  /\ io.op = "read" /\ io.opened
  /\ io.data_size = 100 /\ io.before = 90 /\ io.req = 50
  /\ Len(io.preads) = 3 /\ PreadsSucceed(io)
  /\ io.status = "EFI_SUCCESS" /\ io.Len = 10 /\ io.Offset = 100

(* C11: when NtfsCloseFile returns, the file instance it was given is not in
   the lookup list, whatever it held when the call was made *)
C11_CloseRemoves ==
  (ret.op = "close" /\ Returned) => ~InList(list, ret.file)

(* C12: when NtfsOpenFile finds no open instance for the path and
   NtfsOpenInodeFromPath returns NULL, the call returns the status of the
   library's errno, leaves the lookup list as it was, and the caller's
   instance is not in the list and holds NULL for an inode *)
ResolveFailed(r) ==
  \E i \in Events(r, {"open", "resolve"}, "ni") : r.trace[i].ino = NoInode

C13_Registered ==
  (ret.op \in {"open", "create"} /\ ret.status = "EFI_SUCCESS"
     /\ "alias" \notin ret.flags)
    => /\ InList(list, ret.out)
       /\ NtfsLookupPath(Machine, ret.path, NoFile, FALSE) = ret.out

(* C14: NtfsCreateFile for a path an instance in the lookup list has makes no
   library call and leaves the list and that instance as they were; it
   returns EFI_ACCESS_DENIED, with the caller's instance as it was given,
   when one is a directory and the other is not, and EFI_SUCCESS with the
   instance of the list otherwise *)
Listed(Path) == NtfsLookupPath(Machine, Path, NoFile, FALSE)

C14_CreateAlias ==
  [][(Called /\ ret'.op = "create" /\ Listed(ret'.path) # NoFile)
       => /\ ret'.trace = << >>
          /\ list' = list
          /\ files'[Listed(ret'.path)] = files[Listed(ret'.path)]
          /\ IF files[Listed(ret'.path)].IsDir # ("IsDir" \in ret'.flags)
               THEN /\ ret'.status = "EFI_ACCESS_DENIED"
                    /\ ret'.out = NoFile
                    /\ ret'.rec = [FreeFile EXCEPT !.st = "open",
                                                   !.Path = ret'.path,
                                                   !.IsDir = "IsDir" \in ret'.flags]
               ELSE /\ ret'.status = "EFI_SUCCESS"
                    /\ ret'.out = Listed(ret'.path)]_vars

C14_Witness ==
  /\ ret.op = "create" /\ "alias" \in ret.flags /\ "IsDir" \in ret.flags
  /\ ret.path = <<"a", "b">> /\ ret.status = "EFI_ACCESS_DENIED"
  /\ \E f \in FileIds : InList(list, f) /\ files[f].Path = ret.path /\ ~files[f].IsDir

(* C15, as stated: NtfsMoveFile on an instance whose inode is dirty returns
   EFI_ACCESS_DENIED and changes neither an instance, nor the lookup list,
   nor an inode of the library *)
MoveOfDirty ==
  /\ Called /\ ret'.op = "move" /\ ret'.status # "FAULT"
  /\ IsOpen(files[ret'.file].ni) /\ files[ret'.file].ni.dirty # {}

MoveRefused ==
  /\ ret'.status = "EFI_ACCESS_DENIED"
  /\ ret'.trace = << >>
  /\ files' = files /\ list' = list /\ nopen' = nopen /\ dirents' = dirents

C16_MoveRenames ==
  [][(Called /\ ret'.op = "move" /\ ret'.status = "EFI_SUCCESS"
        /\ ret'.newpath # ret'.path)
       => /\ files'[ret'.file].Path = ret'.newpath
          /\ NtfsLookupPath([files |-> files', list |-> list'], ret'.newpath,
                            NoFile, FALSE) = ret'.file
          /\ NtfsLookupPath([files |-> files', list |-> list'], ret'.path,
                            NoFile, FALSE) # ret'.file
          /\ IsOpen(files'[ret'.file].ni)
          /\ files'[ret'.file].ni.ino = files[ret'.file].ni.ino]_vars

(* C19: NtfsMountVolume on an EFI_FS whose MountCount is above zero returns
   EFI_SUCCESS, does not call ntfs_mount() and leaves the lookup list as it
   is; ntfs_mount() is called only when MountCount was zero *)
C19_MountIdempotent ==
  [][(Called /\ ret'.op = "mount")
       => /\ fs.MountCount > 0
               => /\ ret'.status = "EFI_SUCCESS"
                  /\ fs'.mounts = fs.mounts
                  /\ ret'.flags = {}
                  /\ list' = list
          /\ fs'.mounts # fs.mounts => fs.MountCount = 0]_vars

C19_Witness ==
  /\ ret.op = "mount" /\ ret.status = "EFI_SUCCESS" /\ ret.flags = {}
  /\ fs.MountCount > 1 /\ fs.mounts = 1
  /\ list # << >>

(* C20: with a serial stored in the EFI_FS, NtfsMountVolume returns
   EFI_NO_MEDIA when ntfs_mount() fails and EFI_MEDIA_CHANGED when it mounts
   a volume of another serial; both leave the stored serial and NtfsVolume
   as they were and the EFI_FS out of FsListHead *)
MountKept ==
  /\ fs'.NtfsVolumeSerial = fs.NtfsVolumeSerial
  /\ fs'.NtfsVolume = fs.NtfsVolume
  /\ ~fs'.InFsList

C20_MediaChange ==
  [][(Called /\ ret'.op = "mount" /\ fs'.mounts # fs.mounts
        /\ fs.NtfsVolumeSerial # 0)
       => /\ fs'.vol = NoVolume
               => (ret'.status = "EFI_NO_MEDIA" /\ MountKept)
          /\ (fs'.vol # NoVolume /\ fs'.vol_serial # fs.NtfsVolumeSerial)
               => (ret'.status = "EFI_MEDIA_CHANGED" /\ MountKept)]_vars

C20_Witness ==
  /\ ret.op = "mount" /\ ret.status = "EFI_MEDIA_CHANGED"
  /\ fs.NtfsVolumeSerial # 0 /\ fs.vol # NoVolume
  /\ fs.vol_serial # fs.NtfsVolumeSerial
  /\ fs.NtfsVolume # fs.vol /\ ~fs.InFsList

(* C18: NtfsWriteFile on an inode whose flags have FILE_ATTR_READONLY returns
   EFI_WRITE_PROTECTED with *Len = 0, File->Offset as before, no call of
   ntfs_attr_open() or ntfs_attr_pwrite(), and the inode's data size, flags
   and times as before *)
C18_WriteProtected ==
  (io.op = "write" /\ "FILE_ATTR_READONLY" \in io.flags)
    => /\ io.status = "EFI_WRITE_PROTECTED"
       /\ io.Len = 0
       /\ io.Offset = io.before
       /\ io.data_size = io.size0
       /\ ~io.opened /\ io.preads = << >> /\ ~io.updated

C18_Witness ==
  /\ io.op = "write" /\ "FILE_ATTR_READONLY" \in io.flags
  /\ io.req > 0 /\ io.Offset < io.data_size
  /\ io.status = "EFI_WRITE_PROTECTED" /\ io.Len = 0

(* C17: NtfsSetFileInfo with ReadOnly set returns EFI_ACCESS_DENIED when one
   of the three times of Info is not zero, when Info->FileName is an absolute
   path other than File->Path, or when Info->FileSize is not the data size of
   the inode; the file instances, the list, the directory entries and the
   size, times and flags of every inode are then as before *)
InfoChanges ==
  \/ io'.info.time # "none"
  \/ io'.info.FileName.abs /\ io'.info.FileName.path # files[ret'.file].Path
  \/ io'.info.FileSize # io.attr[files[ret'.file].ni.ino].data_size

C17_ReadOnlySetInfo ==
  [][(Called /\ ret'.op = "setinfo" /\ io'.info.ReadOnly
        /\ files[ret'.file].ni.ino \in Inodes /\ InfoChanges)
       => /\ ret'.status = "EFI_ACCESS_DENIED"
          /\ files' = files /\ list' = list /\ dirents' = dirents
          /\ io'.attr = io.attr]_vars

(* C21: when NtfsUnmountVolume has returned, the lookup list of the volume is
   empty and MountCount is zero, whatever the list held and whatever
   MountCount was *)
C21_UnmountClears ==
  ret.op = "unmount"
    => (fault = "none" /\ ret.status = "EFI_SUCCESS"
        /\ list = << >> /\ fs.MountCount = 0)

(* C22: ErrnoToEfiStatus gives the same status for the same errno, and no
   other errno is given the status that this errno is given *)
C22_OneToOne ==
  ret.op = "errno"
    => /\ ret.status = ErrnoToEfiStatus(ret.errno)
       /\ \A e \in Errnos : e # ret.errno => ErrnoToEfiStatus(e) # ret.status

(* C22, amended: ErrnoToEfiStatus gives the same status for the same errno;
   it is one-to-one at errno 0 only, the one errno that gives EFI_SUCCESS,
   and an errno it has no case for gives EFI_NO_MAPPING *)
C22_ManyToOne ==
  ret.op = "errno"
    => /\ ret.status = ErrnoToEfiStatus(ret.errno)
       /\ (ret.status = "EFI_SUCCESS") = (ret.errno = "0")
       /\ ret.errno \in {"ENOTTY", "EPIPE"} => ret.status = "EFI_NO_MAPPING"

C22_Witness ==
  /\ ret.op = "errno" /\ ret.errno = "EEXIST"
  /\ ret.status = "EFI_ACCESS_DENIED"
  /\ \E e \in Errnos : e # ret.errno /\ ErrnoToEfiStatus(e) = ret.status

(* C23: when NtfsDeleteFile found Parent in the lookup list and returns, with
   ntfs_delete having succeeded, failed or not been called, Parent and
   GrandParent each hold an open inode of the number they held before, or
   are no longer in the list *)
StillOpenOrGone(g) ==
  g # NoFile
    => \/ ~InList(list', g)
       \/ /\ files'[g].ni # NULL /\ files'[g].ni.live
          /\ files'[g].ni.ino = files[g].ni.ino

C23_DeleteReacquires ==
  [][(Called /\ ret'.op = "delete" /\ ret'.rel # NoFile
        /\ ret'.status # "FAULT")
       => (StillOpenOrGone(ret'.rel) /\ StillOpenOrGone(ret'.rel2))]_vars

(* C24: when ntfs_delete succeeded and the ntfs_inode_open() that reopens
   Parent or GrandParent failed, NtfsDeleteFile returns EFI_SUCCESS, the
   status of the deletion *)
DeleteReopenFailed(r) ==
  /\ r.op = "delete" /\ "deleted" \in r.flags
  /\ \E i \in Events(r, {"open"}, "parent") \cup Events(r, {"open"}, "grandparent") :
       r.trace[i].ino = NoInode

C24_DeleteReportsDelete ==
  DeleteReopenFailed(ret) => ret.status = "EFI_SUCCESS"

(* C25: NtfsFlushFile on an inode with neither NInoDirty nor
   NInoAttrListDirty returns EFI_SUCCESS and makes no library call: no close
   or open of the parent's inode, no ntfs_inode_sync() *)
C25_FlushCleanNothing ==
  [][(Called /\ ret'.op = "flush" /\ ret'.status # "FAULT"
        /\ ~IS_DIRTY(files[ret'.file].ni))
       => (ret'.status = "EFI_SUCCESS" /\ ret'.trace = << >>
           /\ files' = files /\ list' = list)]_vars

(* C26: NtfsFlushFile on an inode that is dirty as IS_DIRTY has it calls
   ntfs_inode_sync(), and with Parent in the lookup list closes the parent's
   inode before the sync and opens it by number after it *)
C26_FlushDirtySyncs ==
  [][(Called /\ ret'.op = "flush" /\ ret'.status # "FAULT"
        /\ IS_DIRTY(files[ret'.file].ni))
       => \E s \in Events(ret', {"sync"}, "ni") :
            ret'.rel # NoFile
              => /\ \E c \in Events(ret', {"close"}, "parent") : c < s
                 /\ \E o \in Events(ret', {"open"}, "parent") : s < o]_vars

(* C27: NtfsCloseFile of an inode with a dirty flag whose parent is in the
   lookup list closes the parent's inode before ntfs_inode_close() of the
   file's inode and calls ntfs_inode_open() with the parent's number after
   it; NtfsCloseFile of an inode with no dirty flag makes no call on a parent
   and leaves the inode pointer of every other file instance as it is *)
ParentListed(f) ==
  IF HasBaseName(files[f].Path) THEN NtfsLookupParent(Machine, f) ELSE NoFile

C27_CloseAroundParent ==
  [][(Called /\ ret'.op = "close" /\ ret'.status # "FAULT"
        /\ files[ret'.file].ni # NULL)
       => /\ (files[ret'.file].ni.dirty # {} /\ ParentListed(ret'.file) # NoFile)
               => \E k \in Events(ret', {"close"}, "ni") :
                    /\ \E c \in Events(ret', {"close"}, "parent") :
                         /\ c < k
                         /\ ret'.trace[c].ino = files[ParentListed(ret'.file)].ni.ino
                    /\ \E o \in Events(ret', {"open"}, "parent") :
                         /\ k < o
                         /\ ret'.trace[o].ino \in
                              {NoInode, files[ParentListed(ret'.file)].ni.ino}
          /\ files[ret'.file].ni.dirty = {}
               => /\ Events(ret', {"close", "open"}, "parent") = {}
                  /\ \A g \in FileIds \ {ret'.file} : files'[g].ni = files[g].ni]_vars

C27_Witness ==
  /\ ret.op = "close" /\ ret.rel # NoFile /\ "dirty" \in ret.flags
  /\ \E k \in Events(ret, {"close"}, "ni") :
       /\ \E c \in Events(ret, {"close"}, "parent") : c < k
       /\ \E o \in Events(ret, {"open"}, "parent") :
            k < o /\ ret.trace[o].ino = ret.relIno
  /\ InList(list, ret.rel)

(* C28: when the ntfs_inode_open() that reopens the parent after
   NtfsCloseFile or NtfsFlushFile closed it fails, the parent is no longer in
   the lookup list; NtfsCloseFile has still removed the file it closed from
   the list, and NtfsFlushFile returns EFI_SUCCESS exactly when
   ntfs_inode_sync() succeeded *)
ReopenFailed(r) ==
  /\ r.op \in {"close", "flush"} /\ r.rel # NoFile
  /\ \E i \in Events(r, {"open"}, "parent") : r.trace[i].ino = NoInode

C28_ReacquireFailure ==
  ReopenFailed(ret)
    => /\ ~InList(list, ret.rel)
       /\ files[ret.rel].ni = NULL
       /\ ret.op = "close"
            => (~InList(list, ret.file) /\ Events(ret, {"close"}, "ni") # {})
       /\ ret.op = "flush"
            => /\ Events(ret, {"sync"}, "ni") # {}
               /\ (ret.status = "EFI_SUCCESS")
                    = (\A k \in Events(ret, {"sync"}, "ni") : ret.trace[k].ino # NoInode)

C28_Witness ==
  /\ ReopenFailed(ret) /\ ret.op = "flush" /\ ret.status = "EFI_SUCCESS"
  /\ ~InList(list, ret.rel) /\ InList(list, ret.file)

(* C29: NtfsOpenFile of a path other than the root that is not in the lookup
   list calls ntfs_pathname_to_inode() from the inode of the instance listed
   for the longest proper prefix of the path, with no listed prefix between
   it and the path, and from the root when no prefix is listed *)
PrefixListed(P, j) == Listed(SubSeq(P, 1, j)) # NoFile

C29_ResolveFromDeepest ==
  [][(Called /\ ret'.op = "open" /\ ret'.status # "FAULT"
        /\ ret'.path \notin {P_EMPTY, P_ROOT} /\ Listed(ret'.path) = NoFile)
       => /\ Events(ret', {"resolve"}, "ni") # {}
          /\ \A e \in Events(ret', {"resolve"}, "ni") :
               /\ (\A j \in 0..(Len(ret'.path) - 1) : ~PrefixListed(ret'.path, j))
                    => ret'.trace[e].from = FILE_root
               /\ \A j \in 0..(Len(ret'.path) - 1) :
                    (/\ PrefixListed(ret'.path, j)
                     /\ \A k \in (j + 1)..(Len(ret'.path) - 1) :
                          ~PrefixListed(ret'.path, k))
                      => ret'.trace[e].from =
                           files[Listed(SubSeq(ret'.path, 1, j))].ni.ino]_vars

C29_Witness ==
  /\ ret.op = "open" /\ ret.status = "EFI_SUCCESS" /\ ret.path = <<"a", "b">>
  /\ \E e \in Events(ret, {"resolve"}, "ni") :
       ret.trace[e].from = "A" /\ ret.trace[e].ino = "B"
  /\ \E f \in FileIds : InList(list, f) /\ files[f].IsRoot
  /\ \E f \in FileIds : InList(list, f) /\ files[f].Path = <<"a">>

(* C30: in an NtfsMoveFile to another directory whose new parent directory is
   not in the lookup list, the call returns from defined behaviour, parent_ni
   is closed before NtfsOpenInodeFromPath() gets newparent_ni, nothing opens
   the inode of parent_ni until newparent_ni is there, and the next thing
   done with parent_ni is ntfs_inode_open() of the inode number it had *)
GetsNewParent(r) ==
  {i \in Events(r, {"resolve", "open"}, "newparent_ni") :
     \A j \in Events(r, {"resolve", "open", "close", "store"}, "newparent_ni") : i <= j}

NewParentUnlisted(f, NewPath) ==
  /\ f \in Held
  /\ HasBaseName(files[f].Path) /\ files[f].Path # P_ROOT
  /\ NewPath # files[f].Path
  /\ ~SameDir(files[f].Path, NewPath)
  /\ NtfsLookupPath(Machine, Front(NewPath), NoFile, TRUE) = NoFile

C30_ParentClosedAround ==
  [][\A NewPath \in MovePaths, fail \in MoveFails :
       (/\ C4_ListedIsOpen
        /\ nops' = nops + 1 /\ ret'.op = "move"
        /\ NewParentUnlisted(ret'.file, NewPath)
        /\ NtfsMoveFile(ret'.file, NewPath, fail))
       => /\ ret'.status # "FAULT"
          /\ \A n \in GetsNewParent(ret') :
               \E c \in Events(ret', {"close"}, "parent_ni") :
                 /\ c < n
                 /\ \A i \in (c + 1)..(n - 1) :
                      ret'.trace[i].ino # ret'.trace[c].ino
                 /\ \E o \in Events(ret', {"open"}, "parent_ni") :
                      /\ o > n
                      /\ ret'.trace[o].ino \in {ret'.trace[c].ino, NoInode}
                      /\ \A i \in (n + 1)..(o - 1) :
                           ret'.trace[i].var # "parent_ni"]_vars

(* C31: when NtfsMoveFile returns after it got parent_ni, from a lookup list
   whose instances all hold open inodes, the call has a defined outcome, the
   listed instance of the old directory and the listed instance of the new
   directory each hold an open inode with the inode number they held before,
   and a directory that has no listed instance is open as many times as it
   was before *)
MoveStarts(f, NewPath) ==
  /\ f \in Held
  /\ HasBaseName(files[f].Path) /\ files[f].Path # P_ROOT
  /\ NewPath # files[f].Path
  /\ ~IS_DIRTY(files[f].ni)

KeepsInode(g) ==
  g # NoFile => (IsOpen(files'[g].ni) /\ files'[g].ni.ino = files[g].ni.ino)

ClosedAgain(g, inum) ==
  (g = NoFile /\ inum \in Inodes) => nopen'[inum] = nopen[inum]

NewDirListed(f, NewPath) ==
  IF SameDir(files[f].Path, NewPath) THEN NoFile
  ELSE NtfsLookupPath(Machine, Front(NewPath), NoFile, TRUE)

C31_ParentsRestored ==
  [][\A NewPath \in MovePaths, fail \in MoveFails :
       (/\ C4_ListedIsOpen
        /\ nops' = nops + 1 /\ ret'.op = "move"
        /\ MoveStarts(ret'.file, NewPath)
        /\ NtfsMoveFile(ret'.file, NewPath, fail))
       => /\ ret'.status # "FAULT"
          /\ KeepsInode(NtfsLookupParent(Machine, ret'.file))
          /\ KeepsInode(NewDirListed(ret'.file, NewPath))
          /\ ClosedAgain(NtfsLookupParent(Machine, ret'.file), ret'.relIno)
          /\ ClosedAgain(NewDirListed(ret'.file, NewPath), ret'.rel2Ino)]_vars

(* C32: an NtfsDeleteFile that calls ntfs_delete() has closed the inode of
   the grandparent directory before that call exactly when the parent
   directory was taken from the lookup list, the grandparent directory is in
   the list and is not the root of the volume; an instance with IsRoot set is
   never closed as a grandparent, and nothing is closed as a grandparent when
   the parent directory was opened by the call *)
GrandParentOf(f) ==
  IF NtfsLookupParent(Machine, f) = NoFile THEN NoFile
  ELSE NtfsLookupParent(Machine, NtfsLookupParent(Machine, f))

ClosedBeforeDelete(r) ==
  \E c \in Events(r, {"close"}, "grandparent") :
    \A d \in Events(r, {"delete"}, "dir_ni") : c < d

C32_GrandParentRelease ==
  [][(Called /\ ret'.op = "delete" /\ ret'.status # "FAULT"
        /\ HasBaseName(files[ret'.file].Path))
       => /\ (Events(ret', {"delete"}, "dir_ni") # {})
               => (ClosedBeforeDelete(ret')
                     <=> (/\ GrandParentOf(ret'.file) # NoFile
                          /\ files[GrandParentOf(ret'.file)].ni.ino # FILE_root))
          /\ (GrandParentOf(ret'.file) # NoFile
                /\ files[GrandParentOf(ret'.file)].IsRoot)
               => Events(ret', {"close"}, "grandparent") = {}
          /\ (NtfsLookupParent(Machine, ret'.file) = NoFile)
               => Events(ret', {"close"}, "grandparent") = {}]_vars

(* C33: an NtfsCreateFile of a path with no open instance that returns an
   error after it opened the parent directory itself has closed that
   directory and every inode it opened, leaves the caller's instance without
   an inode and the lookup list as it was; when the parent directory is an
   instance of the list, the call, whatever it returns, does not close the
   inode of that instance *)
CreateParent(Path) == NtfsLookupPath(Machine, Front(Path), NoFile, TRUE)

ClosedLater(r, var) ==
  \A o \in Events(r, {"open", "resolve"}, var) :
    r.trace[o].ino # NoInode
      => \E c \in Events(r, {"close"}, var) :
           c > o /\ r.trace[c].ino = r.trace[o].ino

C33_CreateFailureCleanup ==
  [][(Called /\ ret'.op = "create" /\ ret'.status # "FAULT"
        /\ Listed(ret'.path) = NoFile)
       => /\ (EFI_ERROR(ret'.status) /\ CreateParent(ret'.path) = NoFile)
               => /\ ClosedLater(ret', "dir_ni")
                  /\ nopen' = nopen
                  /\ files'[ret'.file].ni = NULL
                  /\ list' = list
          /\ (CreateParent(ret'.path) # NoFile)
               => /\ \A i \in DOMAIN ret'.trace :
                       ret'.trace[i].call = "close"
                         => ret'.trace[i].ino # files[CreateParent(ret'.path)].ni.ino
                  /\ files'[CreateParent(ret'.path)].ni.ino
                       = files[CreateParent(ret'.path)].ni.ino
                  /\ files'[CreateParent(ret'.path)].ni.live
                       = files[CreateParent(ret'.path)].ni.live]_vars

C33_Witness ==
  /\ ret.op = "create" /\ EFI_ERROR(ret.status) /\ ret.status # "FAULT"
  /\ ret.rel = NoFile
  /\ \E o \in Events(ret, {"resolve"}, "dir_ni"), c \in Events(ret, {"close"}, "dir_ni") :
       o < c /\ ret.trace[o].ino = "A" /\ ret.trace[c].ino = "A"
  /\ \E i \in DOMAIN ret.trace :
       ret.trace[i].call = "create" /\ ret.trace[i].ino = NoInode

C33_WitnessListed ==
  /\ ret.op = "create" /\ ret.status = "EFI_SUCCESS" /\ ret.rel # NoFile
  /\ IsOpen(files[ret.rel].ni)
  /\ \E i \in DOMAIN ret.trace :
       ret.trace[i].call = "create" /\ ret.trace[i].ino # NoInode

(* C34: NtfsReadFile returns EFI_SUCCESS only with *Len equal to the length
   clamped to the data size; *Len is the sum of what the ntfs_attr_pread()
   calls returned within what they were asked for, and is what was added to
   File->Offset; a ntfs_attr_pread() that returns zero or less is the last
   one of the call, which then returns an error status *)
RECURSIVE Accumulated(_)
Accumulated(preads) ==
  IF preads = << >> THEN 0
  ELSE IF Head(preads).got >= 1 /\ Head(preads).got <= Head(preads).want
    THEN Head(preads).got + Accumulated(Tail(preads))
  ELSE Accumulated(Tail(preads))

C34_ReadAccumulates ==
  (io.op = "read")
    => /\ io.status = "EFI_SUCCESS"
            => (/\ io.opened /\ io.before <= io.data_size
                /\ io.Len = MinLen(io.req, io.data_size - io.before))
       /\ io.Len = Accumulated(io.preads)
       /\ io.Len = io.Offset - io.before
       /\ \A i \in DOMAIN io.preads :
            io.preads[i].got <= 0
              => (i = Len(io.preads) /\ EFI_ERROR(io.status))

C34_Witness ==
  /\ io.op = "read" /\ io.opened /\ Len(io.preads) = 2
  /\ io.preads[1].got = 1 /\ io.preads[2].got = 0 /\ io.preads[2].want >= 1
  /\ io.Len = 1 /\ io.Offset = io.before + 1 /\ EFI_ERROR(io.status)

(* C35: the instance whose inode NtfsOpenInodeFromPath() hands to
   ntfs_pathname_to_inode() holds an open inode: in an NtfsOpenFile it is
   open when the call is made, and in an NtfsMoveFile to another directory
   that closes the inode of the listed old directory to look for the new
   one, it is not the instance of the old directory *)
StartOf(Path) ==
  IF Path \in {P_EMPTY, P_ROOT} THEN NoFile
  ELSE NtfsLookupPath(Machine, SubSeq(Path, 1, ClosestOpen(Machine, Path)),
                      NoFile, FALSE)

C35_StartIsOpen ==
  [][/\ (Called /\ ret'.op = "open" /\ Listed(ret'.path) = NoFile
           /\ StartOf(ret'.path) # NoFile)
          => IsOpen(files[StartOf(ret'.path)].ni)
     /\ \A NewPath \in MovePaths, fail \in MoveFails :
          (/\ nops' = nops + 1 /\ ret'.op = "move"
           /\ MoveStarts(ret'.file, NewPath)
           /\ NewParentUnlisted(ret'.file, NewPath)
           /\ NtfsLookupParent(Machine, ret'.file) # NoFile
           /\ IsOpen(files[NtfsLookupParent(Machine, ret'.file)].ni)
           /\ NtfsMoveFile(ret'.file, NewPath, fail))
          => StartOf(Front(NewPath)) # NtfsLookupParent(Machine, ret'.file)]_vars

(* C36: when a call has returned, every inode of the library is open as many
   times as there are instances of the lookup list that hold it open: no
   inode is left open that no listed instance holds *)
HeldOpen(i) ==
  {f \in FileIds : InList(list, f) /\ IsOpen(files[f].ni) /\ files[f].ni.ino = i}

C36_NoLeak ==
  Returned => \A i \in Inodes : nopen[i] = Cardinality(HeldOpen(i))

(* C37: when NtfsMoveFile returns an error status, the instance has the path
   it had, and a lookup of that path finds the instance if it did before;
   the path of the instance is another one only after EFI_SUCCESS *)
C37_ErrorKeepsPath ==
  [][(Called /\ ret'.op = "move" /\ ret'.status # "FAULT")
       => /\ EFI_ERROR(ret'.status)
               => /\ files'[ret'.file].Path = files[ret'.file].Path
                  /\ (Listed(files[ret'.file].Path) = ret'.file)
                       => NtfsLookupPath([files |-> files', list |-> list'],
                                         files[ret'.file].Path, NoFile, FALSE)
                            = ret'.file
          /\ (files'[ret'.file].Path # files[ret'.file].Path)
               => ret'.status = "EFI_SUCCESS"]_vars

(* C38: an NtfsMountVolume that returns an error status leaves MountCount as
   it was, and an NtfsMountVolume that returns EFI_SUCCESS leaves the EFI_FS
   with a mounted ntfs_volume *)
C38_FailedMountCount ==
  [][(Called /\ ret'.op = "mount")
       => /\ EFI_ERROR(ret'.status) => fs'.MountCount = fs.MountCount
          /\ (ret'.status = "EFI_SUCCESS")
               => (fs'.NtfsVolume # NoVolume /\ fs'.NtfsVolume \in fs'.live)]_vars

====
